---- MODULE Spec2Model ----
(***************************************************************************)
(* Model of the khoj-wrapper adapter.                                      *)
(*                                                                         *)
(* Two programs live in the repository.  src/README.md holds (after the    *)
(* readme text) the system-tray program: conversation lifecycle, server    *)
(* start/stop, menu handlers and the provider.  src/khoj_provider.go holds *)
(* the stand-alone provider; its callKhojAPI is the same code as the tray  *)
(* program's.                                                              *)
(*                                                                         *)
(* Spec     : the conversation lifecycle (initialize, server start in its  *)
(*            own goroutine, the menu goroutine, the front door).          *)
(* SpecChat : one chat call through callKhojAPI, attempt by attempt, with  *)
(*            the caller's context.                                        *)
(* SpecResume: a launch without flags on a state file an earlier run left. *)
(* SpecFront: one request through /v1/chat/completions (translation,       *)
(*            upstream call, JSON answer or SSE stream) while the menu     *)
(*            goroutine may edit the conversation handle.                  *)
(* SpecTranslate: the translation of a message list into prompt and files, *)
(*            on messages with contents around the 10000-byte limit.       *)
(* SpecDisplay: launches and handle edits whose handles differ in length   *)
(*            and in the width of their characters; the menu title.        *)
(* SpecProvider: one request to the stand-alone provider, through any of   *)
(*            its four routes.                                             *)
(* SpecEdits: a launch on a persisted handle followed by edits of the      *)
(*            handle and the agent through the two update functions.       *)
(* SpecRetry: the attempts of one chat call while the menu goroutine edits *)
(*            the handle.                                                  *)
(* SpecClipboard: the goroutines of processClipboardWithAI and their guard.*)
(*                                                                         *)
(* A Go string is a sequence of bytes; it is written here as a string with *)
(* one character per byte.                                                 *)
(***************************************************************************)
EXTENDS Integers, Sequences, FiniteSets, TLC

\* ------------------------------------------------------------------ bounds
MaxMenuOps == 1
MaxEdits == 2
MaxTriggers == 2
MaxRestarts == 1

\* ------------------------------------------------------- program constants
maxRetries == 3
defaultAgentSlug == "sonnet-short-025716"

\* ------------------------------------------------------------ value domains
\* Handles the backend may return on session creation; "" is what a 200
\* response without a conversation_id field decodes to.
BackendHandles == {"c1", "conv-2"}
OverrideHandles == {"ov"}
UserHandles == {"u1"}
UserAgents == {"gpt-4o"}

\* ------------------------------------------------------------------- text
RECURSIVE Repeat(_, _)
\* strings.Repeat
Repeat(s, n) ==
    IF n <= 0 THEN ""
    ELSE IF n % 2 = 1 THEN s \o Repeat(s, n - 1)
    ELSE LET h == Repeat(s, n \div 2) IN h \o h

\* strings.Contains
Contains(s, m) ==
    \/ m = ""
    \/ \E i \in 1..(Len(s) - Len(m) + 1) :
         /\ SubSeq(s, i, i) = SubSeq(m, 1, 1)
         /\ SubSeq(s, i, i + Len(m) - 1) = m

\* s[i:j] of Go (0-based, j exclusive)
Slice(s, i, j) == SubSeq(s, i + 1, j)

\* A text of n bytes that starts with head and goes on with filler.
Pad(head, n) == head \o Repeat("x", n - Len(head))

\* Bytes above 0x7f: the two bytes of a two-byte UTF-8 character (such as
\* U+00E9, bytes c3 a9) and the three bytes of U+FFFD (ef bf bd).
LeadByte == "^"
ContByte == "~"
TwoByteChar == LeadByte \o ContByte
ReplacementChar == "@@@"

RECURSIVE ToValidUTF8(_)
\* encoding/json writes a string coerced to valid UTF-8: every byte that is
\* not part of a well-formed character becomes U+FFFD.
ToValidUTF8(s) ==
    IF s = "" THEN ""
    ELSE LET b == SubSeq(s, 1, 1) IN
         IF b = LeadByte
         THEN IF Len(s) >= 2 /\ SubSeq(s, 2, 2) = ContByte
              THEN TwoByteChar \o ToValidUTF8(SubSeq(s, 3, Len(s)))
              ELSE ReplacementChar \o ToValidUTF8(SubSeq(s, 2, Len(s)))
         ELSE IF b = ContByte
         THEN ReplacementChar \o ToValidUTF8(SubSeq(s, 2, Len(s)))
         ELSE b \o ToValidUTF8(SubSeq(s, 2, Len(s)))

VARIABLES
    \* command line and environment; menuBudget is the number of menu
    \* operations the user performs in the run
    flagConversationID, flagNewConversation, apiKeySet, menuBudget,
    \* conversation_state.json
    file,
    \* globals of the tray program
    conversationID, currentAgentSlug, newConversation,
    \* main goroutine
    mainPc,
    \* server goroutine (startServer) and globalServer
    srvPc, running, srvSet, srvState,
    \* menu goroutine
    menuPc, menuOp, menuErr, menuState, mStartEnabled, mStopEnabled,
    \* observation of the lifecycle
    startCreates, chkSeen, sentAgent, gotHandle, startFailed, startSaved,
    fileReads, carried, handleEdits, menuOps, starts,
    \* one chat call (callKhojAPI)
    callPc, attempt, lastErr, ctx, khojReq, sent, sleeps, outcomes, callResult,
    \* one request at the front door (/v1/chat/completions)
    reqPc, req, rctx, loaded, prompt, files, upReq, upCalls, upResult,
    httpStatus, response, chunkAt, frames, writeFailed, framesAtCancel, activeSeen,
    \* the inbound HTTP request and what the handler did with it
    inbound, hdrOrigin, bodyRead, completion,
    \* the tray menu: title of the mConvID item
    convTitle,
    \* the two globals when the update function in progress was entered
    menuBefore,
    \* clipboard AI: the guard, and the processClipboardWithAI goroutines
    \* started so far
    clipboardActive, clip

envVars == <<flagConversationID, flagNewConversation, apiKeySet, menuBudget>>
lifeVars == <<envVars, file, conversationID, currentAgentSlug, newConversation, mainPc,
              srvPc, running, srvSet, srvState, menuPc, menuOp, menuErr, menuState,
              mStartEnabled, mStopEnabled>>
obsVars == <<startCreates, chkSeen, sentAgent, gotHandle,
             startFailed, startSaved, fileReads, carried, handleEdits,
             menuOps, starts>>
callVars == <<callPc, attempt, lastErr, ctx, khojReq, sent, sleeps, outcomes,
              callResult>>
frontVars == <<reqPc, req, rctx, loaded, prompt, files, upReq, upCalls, upResult,
               httpStatus, response, chunkAt, frames, writeFailed, framesAtCancel,
               activeSeen>>
doorVars == <<inbound, hdrOrigin, bodyRead, completion>>
uiVars == <<convTitle>>
histVars == <<menuBefore>>
clipVars == <<clipboardActive, clip>>
vars == <<lifeVars, obsVars, callVars, frontVars, doorVars, uiVars, histVars,
          clipVars>>

\* ------------------------------------------------------ Session State Store
NoFile == [kind |-> "absent", id |-> "", agent |-> ""]
BadFile == [kind |-> "corrupt", id |-> "", agent |-> ""]
StateFile(id, agent) == [kind |-> "ok", id |-> id, agent |-> agent]

\* Faulty variant: an unreadable or unparsable file is taken for the empty
\* state.
loadConversationStateLenient(f) ==
    [err |-> FALSE, id |-> f.id, agent |-> f.agent]

\* loadConversationState: a missing file is the empty state, an unreadable
\* or unparsable one is an error.
loadConversationState(f) ==
    IF f.kind = "corrupt" THEN [err |-> TRUE, id |-> "", agent |-> ""]
    ELSE [err |-> FALSE, id |-> f.id, agent |-> f.agent]

\* The ConversationState the callers build from the two globals.
ConversationState(id, agent) == [id |-> id, agent |-> agent]

\* saveConversationState: the write succeeds or fails.
saveConversationState(f, state, ok) ==
    IF ok THEN StateFile(state.id, state.agent) ELSE f

\* ------------------------------------------------ getConversationDisplayID
\* The function reads the global; here the handle is its argument.  len and
\* the slice count bytes.
getConversationDisplayID(id) ==
    IF id = "" THEN "None"
    ELSE IF Len(id) <= 4 THEN id
    ELSE "..." \o Slice(id, Len(id) - 4, Len(id))

\* "Conv: "+getConversationDisplayID(), the title of the mConvID item.
ConvTitle(id) == "Conv: " \o getConversationDisplayID(id)

\* ------------------------------------------------------------ Init (tray)
InitialFiles == {NoFile, BadFile, StateFile("", "gpt-4o"),
                 StateFile("c0", ""), StateFile("c0", "gpt-4o")}

\* carried before any chat request was served
NotServed == "(none)"
NoState == ConversationState("", "")
NoCheck == [done |-> FALSE, nc |-> FALSE, id |-> ""]

\* lastErr before any failure
NoErr == [kind |-> "none", status |-> 0, body |-> ""]

CallIdle ==
    /\ callPc = "idle"
    /\ attempt = 0
    /\ lastErr = NoErr
    /\ ctx = "live"
    /\ khojReq = [ConversationID |-> "", Stream |-> FALSE]
    /\ sent = <<>>
    /\ sleeps = <<>>
    /\ outcomes = <<>>
    /\ callResult = [kind |-> "none", err |-> NoErr]

\* No request is in the /v1/chat/completions handler.
NoRequest == [Stream |-> FALSE, Messages |-> <<>>]
NoUpstream == [Q |-> "", Stream |-> FALSE, ConversationID |-> "",
               ClientID |-> "", Files |-> <<>>]
NoResult == [kind |-> "none", Response |-> "", err |-> NoErr]
NoResponse == [Content |-> "", PromptTokens |-> 0, CompletionTokens |-> 0,
               TotalTokens |-> 0]

FrontIdle ==
    /\ reqPc = "idle"
    /\ req = NoRequest
    /\ rctx = "live"
    /\ loaded = ""
    /\ prompt = ""
    /\ files = <<>>
    /\ upReq = NoUpstream
    /\ upCalls = 0
    /\ upResult = NoResult
    /\ httpStatus = 0
    /\ response = NoResponse
    /\ chunkAt = 0
    /\ frames = <<>>
    /\ writeFailed = FALSE
    /\ framesAtCancel = 0
    /\ activeSeen = {}

\* No request has reached the mux.
NoInbound == [Path |-> "", Method |-> "", Body |-> ""]
NoCompletion == [Object |-> "", Text |-> "", PromptTokens |-> 0,
                 CompletionTokens |-> 0, TotalTokens |-> 0]

DoorIdle ==
    /\ inbound = NoInbound
    /\ hdrOrigin = ""
    /\ bodyRead = FALSE
    /\ completion = NoCompletion

\* No clipboard request was triggered.
ClipIdle ==
    /\ clipboardActive = FALSE
    /\ clip = <<>>

\* The package-level variables before main runs.
Boot ==
    /\ conversationID = ""
    /\ currentAgentSlug = ""
    /\ newConversation = FALSE
    /\ mainPc = "main"
    /\ srvPc = "none"
    /\ running = FALSE
    /\ srvSet = FALSE
    /\ srvState = NoState
    /\ menuPc = "none"
    /\ menuOp = "none"
    /\ menuErr = "none"
    /\ menuState = NoState
    /\ mStartEnabled = FALSE
    /\ mStopEnabled = FALSE
    /\ startCreates = 0
    /\ chkSeen = NoCheck
    /\ sentAgent = ""
    /\ gotHandle = ""
    /\ startFailed = FALSE
    /\ startSaved = FALSE
    /\ fileReads = 0
    /\ carried = NotServed
    /\ handleEdits = FALSE
    /\ menuOps = 0
    /\ starts = 0
    /\ CallIdle
    /\ FrontIdle
    /\ DoorIdle
    /\ convTitle = ""
    /\ menuBefore = NoState
    /\ ClipIdle

Init ==
    /\ flagConversationID \in {""} \cup OverrideHandles
    /\ flagNewConversation \in BOOLEAN
    /\ apiKeySet \in BOOLEAN
    /\ menuBudget = MaxMenuOps
    /\ file \in InitialFiles
    /\ Boot

\* ------------------------------------------------- initializeConversationID
\* Faulty variant: the -n flag is copied before the override is looked at.
initializeConversationIDFlagFirst(fid, fnew, f, id0, slug0, nc0) ==
    IF fid # ""
    THEN [id |-> fid, slug |-> slug0, nc |-> fnew, err |-> FALSE, reads |-> 0]
    ELSE IF fnew
    THEN [id |-> id0, slug |-> slug0, nc |-> fnew, err |-> FALSE, reads |-> 0]
    ELSE LET st == loadConversationState(f) IN
         IF st.err
         THEN [id |-> id0, slug |-> slug0, nc |-> fnew, err |-> TRUE, reads |-> 1]
         ELSE IF st.id = ""
         THEN [id |-> id0,
               slug |-> IF slug0 = "" THEN defaultAgentSlug ELSE slug0,
               nc |-> TRUE, err |-> FALSE, reads |-> 1]
         ELSE [id |-> st.id,
               slug |-> IF st.agent # "" THEN st.agent ELSE defaultAgentSlug,
               nc |-> fnew, err |-> FALSE, reads |-> 1]

\* Faulty variant: the persisted agent is not taken over on resume.
initializeConversationIDDefaultAgent(fid, fnew, f, id0, slug0, nc0) ==
    IF fid # ""
    THEN [id |-> fid, slug |-> slug0, nc |-> nc0, err |-> FALSE, reads |-> 0]
    ELSE IF fnew
    THEN [id |-> id0, slug |-> slug0, nc |-> fnew, err |-> FALSE, reads |-> 0]
    ELSE LET st == loadConversationState(f) IN
         IF st.err
         THEN [id |-> id0, slug |-> slug0, nc |-> fnew, err |-> TRUE, reads |-> 1]
         ELSE IF st.id = ""
         THEN [id |-> id0,
               slug |-> IF slug0 = "" THEN defaultAgentSlug ELSE slug0,
               nc |-> TRUE, err |-> FALSE, reads |-> 1]
         ELSE [id |-> st.id, slug |-> defaultAgentSlug,
               nc |-> fnew, err |-> FALSE, reads |-> 1]

\* The result of initializeConversationID on the flags, the state file and the
\* globals: the new globals, whether it failed, and how often it read the file.
\* The override wins and returns before the -n flag is even copied.
initializeConversationID(fid, fnew, f, id0, slug0, nc0) ==
    IF fid # ""
    THEN [id |-> fid, slug |-> slug0, nc |-> nc0, err |-> FALSE, reads |-> 0]
    ELSE IF fnew
    THEN [id |-> id0, slug |-> slug0, nc |-> fnew, err |-> FALSE, reads |-> 0]
    ELSE LET st == loadConversationState(f) IN
         IF st.err
         THEN [id |-> id0, slug |-> slug0, nc |-> fnew, err |-> TRUE, reads |-> 1]
         ELSE IF st.id = ""
         THEN [id |-> id0,
               slug |-> IF slug0 = "" THEN defaultAgentSlug ELSE slug0,
               nc |-> TRUE, err |-> FALSE, reads |-> 1]
         ELSE [id |-> st.id,
               slug |-> IF st.agent # "" THEN st.agent ELSE defaultAgentSlug,
               nc |-> fnew, err |-> FALSE, reads |-> 1]

\* main: initializeConversationID, log.Fatal on its error, else systray.Run.
Initialize ==
    /\ mainPc = "main"
    /\ LET r == initializeConversationID(flagConversationID, flagNewConversation,
                    file, conversationID, currentAgentSlug, newConversation) IN
         /\ conversationID' = r.id
         /\ currentAgentSlug' = r.slug
         /\ newConversation' = r.nc
         /\ fileReads' = fileReads + r.reads
         /\ mainPc' = IF r.err THEN "fatal" ELSE "initialized"
    /\ UNCHANGED <<envVars, file, srvPc, running, srvSet, srvState, menuPc, menuOp, menuErr,
                   menuState, mStartEnabled, mStopEnabled>>
    /\ UNCHANGED <<startCreates, chkSeen, sentAgent, gotHandle,
                   startFailed, startSaved, carried, handleEdits, menuOps,
                   starts>>
    /\ UNCHANGED callVars
    /\ UNCHANGED frontVars
    /\ UNCHANGED <<doorVars, uiVars, histVars, clipVars>>

\* A server goroutine is launched (go startServer()).
Launch ==
    /\ srvPc' = "check"
    /\ starts' = starts + 1
    /\ startCreates' = 0
    /\ chkSeen' = NoCheck
    /\ startFailed' = FALSE
    /\ startSaved' = FALSE
    /\ mStartEnabled' = FALSE
    /\ mStopEnabled' = TRUE

\* onReady: the menu is built, the menu goroutine is started and the server
\* is auto-started.
OnReady ==
    /\ mainPc = "initialized"
    /\ mainPc' = "tray"
    /\ menuPc' = "idle"
    /\ convTitle' = ConvTitle(conversationID)
    /\ Launch
    /\ UNCHANGED <<envVars, file, conversationID, currentAgentSlug,
                   newConversation, running, srvSet, srvState, menuOp, menuErr,
                   menuState>>
    /\ UNCHANGED <<sentAgent, gotHandle, fileReads, carried, handleEdits, menuOps>>
    /\ UNCHANGED callVars
    /\ UNCHANGED frontVars
    /\ UNCHANGED <<doorVars, histVars, clipVars>>

\* --------------------------------------------------- createNewConversation
\* The agent put into the session request.
SessionAgent(slug) == IF slug = "" THEN defaultAgentSlug ELSE slug

\* What the backend may answer to POST /api/chat/sessions: no answer at all
\* (transport error), or a status with a body that is JSON or not; a JSON
\* body carries a conversation_id or none (id = "").
SessionStatuses == {200, 401, 500}
SessionBodies == {[json |-> FALSE, id |-> ""]} \cup
                 {[json |-> TRUE, id |-> h] : h \in BackendHandles \cup {""}}
SessionResponses ==
    {[transport |-> FALSE, status |-> s, body |-> b] :
        s \in SessionStatuses, b \in SessionBodies} \cup
    {[transport |-> TRUE, status |-> 0, body |-> [json |-> FALSE, id |-> ""]]}

\* The (handle, error) pair createNewConversation returns for a response;
\* msg is the error's text: "failed to create session" (client.Do), "session
\* creation failed with status %d: %s", "failed to decode session response".
SessionResult(resp) ==
    IF resp.transport
    THEN [err |-> TRUE, id |-> "", msg |-> "transport", status |-> 0,
          body |-> resp.body]
    ELSE IF resp.status # 200
    THEN [err |-> TRUE, id |-> "", msg |-> "status", status |-> resp.status,
          body |-> resp.body]
    ELSE IF ~resp.body.json
    THEN [err |-> TRUE, id |-> "", msg |-> "decode", status |-> 0,
          body |-> [json |-> FALSE, id |-> ""]]
    ELSE [err |-> FALSE, id |-> resp.body.id, msg |-> "", status |-> 0,
          body |-> [json |-> FALSE, id |-> ""]]

\* ------------------------------------------------------------- startServer
\* Faulty variant: the -n flag is not looked at.
NeedsNewSessionHandleOnly(nc, id) == id = ""

\* The test that guards session creation at server start.
NeedsNewSession(nc, id) == nc \/ id = ""

StartCheck ==
    /\ srvPc = "check"
    /\ chkSeen' = [done |-> TRUE, nc |-> newConversation, id |-> conversationID]
    /\ srvPc' = IF NeedsNewSession(newConversation, conversationID)
                THEN "create" ELSE "listen"
    /\ UNCHANGED <<envVars, file, conversationID, currentAgentSlug,
                   newConversation, mainPc, running, srvSet, srvState, menuPc, menuOp, menuErr,
                   menuState, mStartEnabled, mStopEnabled>>
    /\ UNCHANGED <<startCreates, sentAgent, gotHandle, startFailed, startSaved,
                   fileReads, carried, handleEdits, menuOps, starts>>
    /\ UNCHANGED callVars
    /\ UNCHANGED frontVars
    /\ UNCHANGED <<doorVars, uiVars, histVars, clipVars>>

\* createNewConversation up to client.Do: the request leaves with the agent.
StartCreateSend ==
    /\ srvPc = "create"
    /\ sentAgent' = SessionAgent(currentAgentSlug)
    /\ startCreates' = startCreates + 1
    /\ srvPc' = "await"
    /\ UNCHANGED <<envVars, file, conversationID, currentAgentSlug,
                   newConversation, mainPc, running, srvSet, srvState, menuPc, menuOp, menuErr,
                   menuState, mStartEnabled, mStopEnabled>>
    /\ UNCHANGED <<chkSeen, gotHandle, startFailed, startSaved, fileReads, carried, handleEdits, menuOps, starts>>
    /\ UNCHANGED callVars
    /\ UNCHANGED frontVars
    /\ UNCHANGED <<doorVars, uiVars, histVars, clipVars>>

\* Faulty variant: the failure is logged and the server is started anyway.
StartCreateFailedContinues ==
    /\ srvPc' = "listen"
    /\ startFailed' = TRUE
    /\ UNCHANGED <<conversationID, newConversation, gotHandle, running>>

\* Faulty variant: a failed creation is tried again.
StartCreateFailedRetries ==
    /\ srvPc' = "create"
    /\ startFailed' = TRUE
    /\ UNCHANGED <<conversationID, newConversation, gotHandle, running>>

\* Session creation failed: log, running = false, return.
StartCreateFailed ==
    /\ srvPc' = "ended"
    /\ running' = FALSE
    /\ startFailed' = TRUE
    /\ UNCHANGED <<conversationID, newConversation, gotHandle>>

\* Session creation succeeded: adopt the handle, clear the flag.
StartCreateOK(id) ==
    /\ conversationID' = id
    /\ newConversation' = FALSE
    /\ gotHandle' = id
    /\ srvPc' = "build"
    /\ UNCHANGED <<running, startFailed>>

\* createNewConversation returns to startServer on the answer resp.
StartCreateRecvOn(resp) ==
    /\ srvPc = "await"
    /\ LET r == SessionResult(resp) IN
         IF r.err THEN StartCreateFailed ELSE StartCreateOK(r.id)
    /\ UNCHANGED <<envVars, file, currentAgentSlug, mainPc, srvSet, srvState,
                   menuPc, menuOp, menuErr, menuState, mStartEnabled, mStopEnabled>>
    /\ UNCHANGED <<startCreates, chkSeen, sentAgent, startSaved, fileReads,
                   carried, handleEdits, menuOps, starts>>
    /\ UNCHANGED callVars
    /\ UNCHANGED frontVars
    /\ UNCHANGED <<doorVars, uiVars, histVars, clipVars>>

StartCreateRecv == \E resp \in SessionResponses : StartCreateRecvOn(resp)

\* state := &ConversationState{conversationID, currentAgentSlug, now}
StartBuildState ==
    /\ srvPc = "build"
    /\ srvState' = ConversationState(conversationID, currentAgentSlug)
    /\ srvPc' = "save"
    /\ UNCHANGED <<envVars, file, conversationID, currentAgentSlug,
                   newConversation, mainPc, running, srvSet, menuPc, menuOp, menuErr, menuState,
                   mStartEnabled, mStopEnabled>>
    /\ UNCHANGED <<obsVars, callVars>>
    /\ UNCHANGED frontVars
    /\ UNCHANGED <<doorVars, uiVars, histVars, clipVars>>

\* saveConversationState; a failure is only logged.
StartSave ==
    /\ srvPc = "save"
    /\ \E ok \in BOOLEAN :
         /\ file' = saveConversationState(file, srvState, ok)
         /\ startSaved' = ok
    /\ srvPc' = "listen"
    /\ UNCHANGED <<envVars, conversationID, currentAgentSlug, newConversation,
                   mainPc, running, srvSet, srvState, menuPc, menuOp, menuErr, menuState,
                   mStartEnabled, mStopEnabled>>
    /\ UNCHANGED <<startCreates, chkSeen, sentAgent, gotHandle, startFailed,
                   fileReads, carried, handleEdits, menuOps, starts>>
    /\ UNCHANGED callVars
    /\ UNCHANGED frontVars
    /\ UNCHANGED <<doorVars, uiVars, histVars, clipVars>>

\* globalServer.srv is set, running = true, ListenAndServe: it serves, or
\* returns an error at once (running = false).
StartListen ==
    /\ srvPc = "listen"
    /\ srvSet' = TRUE
    /\ \E ok \in BOOLEAN :
         /\ running' = ok
         /\ srvPc' = IF ok THEN "serving" ELSE "ended"
    /\ UNCHANGED <<envVars, file, conversationID, currentAgentSlug,
                   newConversation, mainPc, srvState, menuPc, menuOp, menuErr, menuState,
                   mStartEnabled, mStopEnabled>>
    /\ UNCHANGED <<obsVars, callVars>>
    /\ UNCHANGED frontVars
    /\ UNCHANGED <<doorVars, uiVars, histVars, clipVars>>

\* ---------------------------------------------------------- menu goroutine
\* mStop clicked: stopServer when running, then the Start item is enabled.
StopClick ==
    /\ menuPc = "idle"
    /\ mStopEnabled
    /\ running
    /\ srvSet
    /\ running' = FALSE
    /\ srvPc' = "stopped"
    /\ mStartEnabled' = TRUE
    /\ mStopEnabled' = FALSE
    /\ UNCHANGED <<envVars, file, conversationID, currentAgentSlug,
                   newConversation, mainPc, srvSet, srvState, menuPc, menuOp, menuErr,
                   menuState>>
    /\ UNCHANGED <<obsVars, callVars>>
    /\ UNCHANGED frontVars
    /\ UNCHANGED <<doorVars, uiVars, histVars, clipVars>>

\* mStart clicked: go startServer() unless running.
StartClick ==
    /\ menuPc = "idle"
    /\ mStartEnabled
    /\ ~running
    /\ starts <= MaxRestarts
    /\ Launch
    /\ UNCHANGED <<envVars, file, conversationID, currentAgentSlug,
                   newConversation, mainPc, running, srvSet, srvState, menuPc, menuOp, menuErr,
                   menuState>>
    /\ UNCHANGED <<sentAgent, gotHandle, fileReads, carried, handleEdits, menuOps>>
    /\ UNCHANGED callVars
    /\ UNCHANGED frontVars
    /\ UNCHANGED <<doorVars, uiVars, histVars, clipVars>>

\* createNewConversationFromMenu up to client.Do: without an API key it
\* returns an error before anything is sent.
MenuNewConversation ==
    /\ mainPc = "tray"
    /\ menuPc = "idle"
    /\ menuOps < menuBudget
    /\ menuOps' = menuOps + 1
    /\ menuOp' = "new"
    /\ IF ~apiKeySet
       THEN /\ menuErr' = "nokey"
            /\ UNCHANGED menuPc
       ELSE /\ menuErr' = "none"
            /\ menuPc' = "await"
    /\ UNCHANGED <<envVars, file, conversationID, currentAgentSlug,
                   newConversation, mainPc, srvPc, running, srvSet, srvState,
                   menuState, mStartEnabled, mStopEnabled>>
    /\ UNCHANGED <<startCreates, chkSeen, sentAgent, gotHandle, startFailed, startSaved,
                   fileReads, carried, handleEdits, starts>>
    /\ UNCHANGED callVars
    /\ UNCHANGED frontVars
    /\ UNCHANGED <<doorVars, uiVars, histVars, clipVars>>

\* Faulty variant: the answer is adopted whether or not it is an error.
MenuNewRecvOnIgnoresError(resp) ==
    /\ menuPc = "await"
    /\ conversationID' = SessionResult(resp).id
    /\ handleEdits' = TRUE
    /\ menuPc' = "build"
    /\ UNCHANGED menuErr
    /\ UNCHANGED <<envVars, file, currentAgentSlug, newConversation, mainPc,
                   srvPc, running, srvSet, srvState, menuOp, menuState,
                   mStartEnabled, mStopEnabled>>
    /\ UNCHANGED <<startCreates, chkSeen, sentAgent, gotHandle,
                   startFailed, startSaved, fileReads, carried, menuOps, starts>>
    /\ UNCHANGED callVars
    /\ UNCHANGED frontVars
    /\ UNCHANGED <<doorVars, uiVars, histVars, clipVars>>

\* The session answer resp arrives in createNewConversationFromMenu.
MenuNewRecvOn(resp) ==
    /\ menuPc = "await"
    /\ LET r == SessionResult(resp) IN
         IF r.err
         THEN /\ menuErr' = "create"
              /\ menuPc' = "idle"
              /\ UNCHANGED <<conversationID, handleEdits>>
         ELSE /\ conversationID' = r.id
              /\ handleEdits' = TRUE
              /\ menuPc' = "build"
              /\ UNCHANGED menuErr
    /\ UNCHANGED <<envVars, file, currentAgentSlug, newConversation, mainPc,
                   srvPc, running, srvSet, srvState, menuOp, menuState,
                   mStartEnabled, mStopEnabled>>
    /\ UNCHANGED <<startCreates, chkSeen, sentAgent, gotHandle,
                   startFailed, startSaved, fileReads, carried, menuOps, starts>>
    /\ UNCHANGED callVars
    /\ UNCHANGED frontVars
    /\ UNCHANGED <<doorVars, uiVars, histVars, clipVars>>

MenuNewRecv == \E resp \in SessionResponses : MenuNewRecvOn(resp)

\* Faulty variant: the empty handle is installed like any other.
updateConversationIDUnchecked(newID) ==
    /\ mainPc = "tray"
    /\ menuPc = "idle"
    /\ menuOps < menuBudget
    /\ menuOps' = menuOps + 1
    /\ menuOp' = "conv"
    /\ conversationID' = newID
    /\ handleEdits' = TRUE
    /\ menuErr' = "none"
    /\ menuPc' = "build"
    /\ UNCHANGED <<envVars, file, currentAgentSlug, newConversation, mainPc,
                   srvPc, running, srvSet, srvState, menuState, mStartEnabled,
                   mStopEnabled>>
    /\ UNCHANGED <<startCreates, chkSeen, sentAgent, gotHandle,
                   startFailed, startSaved, fileReads, carried, starts>>
    /\ UNCHANGED callVars
    /\ UNCHANGED frontVars
    /\ menuBefore' = IF menuPc' = "build"
                     THEN ConversationState(conversationID, currentAgentSlug)
                     ELSE NoState
    /\ UNCHANGED <<doorVars, uiVars, clipVars>>

\* Faulty variant: an unchanged handle is not written again.
updateConversationIDSkipsUnchanged(newID) ==
    /\ mainPc = "tray"
    /\ menuPc = "idle"
    /\ menuOps < menuBudget
    /\ menuOps' = menuOps + 1
    /\ menuOp' = "conv"
    /\ IF newID = ""
       THEN /\ menuErr' = "empty"
            /\ UNCHANGED <<conversationID, handleEdits, menuPc>>
       ELSE IF newID = conversationID
       THEN /\ menuErr' = "none"
            /\ UNCHANGED <<conversationID, handleEdits, menuPc>>
       ELSE /\ conversationID' = newID
            /\ handleEdits' = TRUE
            /\ menuErr' = "none"
            /\ menuPc' = "build"
    /\ UNCHANGED <<envVars, file, currentAgentSlug, newConversation, mainPc,
                   srvPc, running, srvSet, srvState, menuState, mStartEnabled,
                   mStopEnabled>>
    /\ UNCHANGED <<startCreates, chkSeen, sentAgent, gotHandle,
                   startFailed, startSaved, fileReads, carried, starts>>
    /\ UNCHANGED callVars
    /\ UNCHANGED frontVars
    /\ menuBefore' = IF menuPc' = "build"
                     THEN ConversationState(conversationID, currentAgentSlug)
                     ELSE NoState
    /\ UNCHANGED <<doorVars, uiVars, clipVars>>

\* updateConversationID(newID): the empty handle is rejected.
updateConversationID(newID) ==
    /\ mainPc = "tray"
    /\ menuPc = "idle"
    /\ menuOps < menuBudget
    /\ menuOps' = menuOps + 1
    /\ menuOp' = "conv"
    /\ IF newID = ""
       THEN /\ menuErr' = "empty"
            /\ UNCHANGED <<conversationID, handleEdits, menuPc>>
       ELSE /\ conversationID' = newID
            /\ handleEdits' = TRUE
            /\ menuErr' = "none"
            /\ menuPc' = "build"
    /\ UNCHANGED <<envVars, file, currentAgentSlug, newConversation, mainPc,
                   srvPc, running, srvSet, srvState, menuState, mStartEnabled,
                   mStopEnabled>>
    /\ UNCHANGED <<startCreates, chkSeen, sentAgent, gotHandle,
                   startFailed, startSaved, fileReads, carried, starts>>
    /\ UNCHANGED callVars
    /\ UNCHANGED frontVars
    /\ menuBefore' = IF menuPc' = "build"
                     THEN ConversationState(conversationID, currentAgentSlug)
                     ELSE NoState
    /\ UNCHANGED <<doorVars, uiVars, clipVars>>

\* Faulty variant: the empty slug is installed as it is.
NormalizeSlugIdentity(newSlug) == newSlug

\* The slug updateAgentSlug installs for its argument.
NormalizeSlug(newSlug) == IF newSlug = "" THEN defaultAgentSlug ELSE newSlug

\* updateAgentSlug(newSlug)
updateAgentSlug(newSlug) ==
    /\ mainPc = "tray"
    /\ menuPc = "idle"
    /\ menuOps < menuBudget
    /\ menuOps' = menuOps + 1
    /\ menuOp' = "agent"
    /\ currentAgentSlug' = NormalizeSlug(newSlug)
    /\ menuErr' = "none"
    /\ menuPc' = "build"
    /\ UNCHANGED <<envVars, file, conversationID, newConversation, mainPc,
                   srvPc, running, srvSet, srvState, menuState, mStartEnabled,
                   mStopEnabled>>
    /\ UNCHANGED <<startCreates, chkSeen, sentAgent, gotHandle,
                   startFailed, startSaved, fileReads, carried, handleEdits,
                   starts>>
    /\ UNCHANGED callVars
    /\ UNCHANGED frontVars
    /\ menuBefore' = ConversationState(conversationID, currentAgentSlug)
    /\ UNCHANGED <<doorVars, uiVars, clipVars>>

\* state := &ConversationState{conversationID, currentAgentSlug, now} in the
\* three menu operations.
MenuBuildState ==
    /\ menuPc = "build"
    /\ menuState' = ConversationState(conversationID, currentAgentSlug)
    /\ menuPc' = "save"
    /\ UNCHANGED <<envVars, file, conversationID, currentAgentSlug,
                   newConversation, mainPc, srvPc, running, srvSet, srvState,
                   menuOp, menuErr, mStartEnabled, mStopEnabled>>
    /\ UNCHANGED <<obsVars, callVars>>
    /\ UNCHANGED frontVars
    /\ UNCHANGED <<doorVars, uiVars, histVars, clipVars>>

\* saveConversationState in the three menu operations: the two update
\* operations return the save error, the new-conversation one only logs it.
\* Back in the menu loop, a conversation operation that returned nil sets
\* the title of mConvID.
MenuSave ==
    /\ menuPc = "save"
    /\ \E ok \in BOOLEAN :
         /\ file' = saveConversationState(file, menuState, ok)
         /\ menuErr' = IF ~ok /\ menuOp \in {"conv", "agent"}
                       THEN "save" ELSE "none"
         /\ convTitle' = IF menuOp = "new" \/ (menuOp = "conv" /\ ok)
                         THEN ConvTitle(conversationID) ELSE convTitle
    /\ menuPc' = "idle"
    /\ UNCHANGED <<envVars, conversationID, currentAgentSlug, newConversation,
                   mainPc, srvPc, running, srvSet, srvState, menuOp, menuState,
                   mStartEnabled, mStopEnabled>>
    /\ UNCHANGED <<startCreates, chkSeen, sentAgent, gotHandle,
                   startFailed, startSaved, fileReads, carried, handleEdits, menuOps,
                   starts>>
    /\ UNCHANGED callVars
    /\ UNCHANGED frontVars
    /\ menuBefore' = NoState
    /\ UNCHANGED <<doorVars, clipVars>>

\* ------------------------------------------------------ HTTP front door
\* The upstream request HandleChatCompletion builds: the global handle, and
\* stream always false.
BuildKhojRequest(id) == [ConversationID |-> id, Stream |-> FALSE]

\* A chat request is served by the running server: its upstream request
\* carries the handle read from the global.
ServeChat ==
    /\ srvPc = "serving"
    /\ carried' = BuildKhojRequest(conversationID).ConversationID
    /\ UNCHANGED lifeVars
    /\ UNCHANGED <<startCreates, chkSeen, sentAgent, gotHandle,
                   startFailed, startSaved, fileReads, handleEdits, menuOps,
                   starts>>
    /\ UNCHANGED callVars
    /\ UNCHANGED frontVars
    /\ UNCHANGED <<doorVars, uiVars, histVars, clipVars>>

Next ==
    \/ Initialize
    \/ OnReady
    \/ StartCheck
    \/ StartCreateSend
    \/ StartCreateRecv
    \/ StartBuildState
    \/ StartSave
    \/ StartListen
    \/ StopClick
    \/ StartClick
    \/ MenuNewConversation
    \/ MenuNewRecv
    \/ \E newID \in UserHandles \cup {""} : updateConversationID(newID)
    \/ \E newSlug \in UserAgents \cup {""} : updateAgentSlug(newSlug)
    \/ MenuBuildState
    \/ MenuSave
    \/ ServeChat

Spec == Init /\ [][Next]_vars

\* ------------------------------------------------ restart of the process
\* The files an earlier run of the program can have left behind with a
\* non-empty handle: saveConversationState applied to the ConversationState
\* its callers build from conversationID and currentAgentSlug.
PersistedFiles ==
    {saveConversationState(NoFile, ConversationState(h, a), TRUE) :
        h \in BackendHandles \cup UserHandles \cup OverrideHandles,
        a \in {"", defaultAgentSlug} \cup UserAgents}

\* The program is launched again, with no flags, on such a file.
InitResume ==
    /\ flagConversationID = ""
    /\ flagNewConversation = FALSE
    /\ apiKeySet \in BOOLEAN
    /\ menuBudget = MaxMenuOps
    /\ file \in PersistedFiles
    /\ Boot

SpecResume == InitResume /\ [][Next]_vars

\* ------------------------------------------------ edits of the active pair
\* A launch without flags on a file with a backend handle, followed by
\* edits of the handle and of the agent through the two update functions.
InitEdits ==
    /\ flagConversationID = ""
    /\ flagNewConversation = FALSE
    /\ apiKeySet \in BOOLEAN
    /\ menuBudget = MaxEdits
    /\ file \in {saveConversationState(NoFile, ConversationState(h, a), TRUE) :
                    h \in BackendHandles, a \in {"", defaultAgentSlug} \cup UserAgents}
    /\ Boot

NextEdits ==
    \/ Initialize
    \/ OnReady
    \/ StartCheck
    \/ StartListen
    \/ \E newID \in UserHandles \cup {""} : updateConversationID(newID)
    \/ \E newSlug \in UserAgents \cup {""} : updateAgentSlug(newSlug)
    \/ MenuBuildState
    \/ MenuSave

SpecEdits == InitEdits /\ [][NextEdits]_vars

\* ---------------------------------------------- the handle in the tray menu
\* Handles as the -conversation-id flag and the edit dialog take them: any
\* text, also with characters of more than one byte.
DisplayHandles ==
    {"", "abc", "abcd", "abcde", "abcd1234", "conv-2",
     TwoByteChar \o TwoByteChar \o TwoByteChar,
     "ab" \o TwoByteChar \o "cde"}

\* A launch with or without an override, no server goroutine looked at.
InitDisplay ==
    /\ flagConversationID \in DisplayHandles
    /\ flagNewConversation = FALSE
    /\ apiKeySet = TRUE
    /\ menuBudget = MaxMenuOps
    /\ file \in {NoFile, StateFile("conv-2", "gpt-4o")}
    /\ Boot

NextDisplay ==
    \/ Initialize
    \/ OnReady
    \/ \E newID \in DisplayHandles : updateConversationID(newID)
    \/ MenuBuildState
    \/ MenuSave

SpecDisplay == InitDisplay /\ [][NextDisplay]_vars

\* ------------------------------------------------------------ callKhojAPI
\* What one attempt can end in.  kind "transport": HTTPClient.Do returned an
\* error (connection failure, client timeout, or the context's error);
\* kind "read": the body could not be read; kind "http": a status and a body,
\* where the body is JSON that decodes into KhojResponse or is not.
ChatStatuses == {101, 200, 201, 204, 301, 400, 404, 500, 503}
ChatBodies == {"json", "garbage"}
TransportErrors == {"refused", "timeout"}
ChatResponses ==
    {[kind |-> "http", status |-> s, body |-> b] :
        s \in ChatStatuses, b \in ChatBodies} \cup
    {[kind |-> "transport", status |-> 0, body |-> e] : e \in TransportErrors} \cup
    {[kind |-> "read", status |-> 0, body |-> ""]}
CtxError == [kind |-> "transport", status |-> 0, body |-> "context canceled"]
DeadlineError == [kind |-> "transport", status |-> 0,
                  body |-> "context deadline exceeded"]

\* ctx.Err() of a done context, as HTTPClient.Do returns it.
ContextError(c) == IF c = "deadline" THEN DeadlineError ELSE CtxError

\* Faulty variant: one attempt too many.
MoreAttemptsOffByOne(a) == a <= maxRetries

\* for attempt := 0; attempt < maxRetries; attempt++
MoreAttempts(a) == a < maxRetries

\* Faulty variant: the backoff counts attempts from one.
BackoffFromOne(a) == (a + 1) * 2

\* time.Sleep(time.Duration(attempt) * 2 * time.Second), in seconds
Backoff(a) == a * 2

\* Faulty variant: client errors are retried too.
RetryableStatusFrom400(status) == status >= 400

\* if resp.StatusCode >= 500 { continue }
RetryableStatus(status) == status >= 500

\* Faulty variant: the request is built without the caller's context.
RequestContextBackground(c) == "live"

\* The context the HTTP request is bound to (http.NewRequestWithContext).
RequestContext(c) == c

\* Faulty variant: the transport error is not wrapped into lastErr.
AttemptErrorOpaque(resp) ==
    IF resp.kind = "transport" THEN [kind |-> "transport", status |-> 0, body |-> ""]
    ELSE IF resp.kind = "read" THEN [kind |-> "read", status |-> 0, body |-> ""]
    ELSE IF resp.status # 200 THEN [kind |-> "api", status |-> resp.status, body |-> resp.body]
    ELSE IF resp.body # "json" THEN [kind |-> "decode", status |-> 0, body |-> ""]
    ELSE NoErr

\* lastErr for an attempt's outcome (none when the attempt succeeded); %w
\* keeps the cause.
AttemptError(resp) ==
    IF resp.kind = "transport" THEN [kind |-> "transport", status |-> 0, body |-> resp.body]
    ELSE IF resp.kind = "read" THEN [kind |-> "read", status |-> 0, body |-> ""]
    ELSE IF resp.status # 200 THEN [kind |-> "api", status |-> resp.status, body |-> resp.body]
    ELSE IF resp.body # "json" THEN [kind |-> "decode", status |-> 0, body |-> ""]
    ELSE NoErr

\* Faulty variant: every 2xx answer that decodes is a success.
AttemptVerdictAny2xx(resp) ==
    IF resp.kind \in {"transport", "read"} THEN "continue"
    ELSE IF resp.status < 200 \/ resp.status > 299
    THEN IF RetryableStatus(resp.status) THEN "continue" ELSE "return"
    ELSE IF resp.body # "json" THEN "continue"
    ELSE "ok"

\* Faulty variant: an attempt ended by the context ends the call.
AttemptVerdictContextAborts(resp) ==
    IF resp \in {CtxError, DeadlineError} THEN "return"
    ELSE IF resp.kind \in {"transport", "read"} THEN "continue"
    ELSE IF resp.status # 200
    THEN IF RetryableStatus(resp.status) THEN "continue" ELSE "return"
    ELSE IF resp.body # "json" THEN "continue"
    ELSE "ok"

\* Faulty variant: a 200 answer that does not decode ends the call.
AttemptVerdictDecodeAborts(resp) ==
    IF resp.kind \in {"transport", "read"} THEN "continue"
    ELSE IF resp.status # 200
    THEN IF RetryableStatus(resp.status) THEN "continue" ELSE "return"
    ELSE IF resp.body # "json" THEN "return"
    ELSE "ok"

\* What the loop body does with an attempt's outcome: "continue", "return"
\* (the error) or "ok" (the parsed response).
AttemptVerdict(resp) ==
    IF resp.kind \in {"transport", "read"} THEN "continue"
    ELSE IF resp.status # 200
    THEN IF RetryableStatus(resp.status) THEN "continue" ELSE "return"
    ELSE IF resp.body # "json" THEN "continue"
    ELSE "ok"

\* A chat request reaches HandleChatCompletion, which builds the upstream
\* request and enters callKhojAPI.
CallStart ==
    /\ callPc = "idle"
    /\ srvPc = "serving"
    /\ khojReq' = BuildKhojRequest(conversationID)
    /\ callPc' = "loop"
    /\ attempt' = 0
    /\ lastErr' = NoErr
    /\ ctx' = "live"
    /\ sent' = <<>>
    /\ sleeps' = <<>>
    /\ outcomes' = <<>>
    /\ callResult' = [kind |-> "none", err |-> NoErr]
    /\ UNCHANGED <<lifeVars, obsVars>>
    /\ UNCHANGED frontVars
    /\ UNCHANGED <<doorVars, uiVars, histVars, clipVars>>

\* The loop condition: another attempt, or the exhausted-attempts error.
CallLoop ==
    /\ callPc = "loop"
    /\ IF MoreAttempts(attempt)
       THEN /\ callPc' = IF attempt > 0 THEN "sleep" ELSE "send"
            /\ UNCHANGED callResult
       ELSE /\ callPc' = "done"
            /\ callResult' = [kind |-> "exhausted", err |-> lastErr]
    /\ UNCHANGED <<attempt, lastErr, ctx, khojReq, sent, sleeps, outcomes>>
    /\ UNCHANGED <<lifeVars, obsVars>>
    /\ UNCHANGED frontVars
    /\ UNCHANGED <<doorVars, uiVars, histVars, clipVars>>

\* time.Sleep before a retry; it does not look at the context.
CallSleep ==
    /\ callPc = "sleep"
    /\ sleeps' = Append(sleeps, Backoff(attempt))
    /\ callPc' = "send"
    /\ UNCHANGED <<attempt, lastErr, ctx, khojReq, sent, outcomes, callResult>>
    /\ UNCHANGED <<lifeVars, obsVars>>
    /\ UNCHANGED frontVars
    /\ UNCHANGED <<doorVars, uiVars, histVars, clipVars>>

\* Faulty variant: the handle is read from the global for every attempt.
CallSendRereadsHandle ==
    /\ callPc = "send"
    /\ sent' = Append(sent, [khojReq EXCEPT !.ConversationID = conversationID])
    /\ callPc' = "inflight"
    /\ UNCHANGED <<attempt, lastErr, ctx, khojReq, sleeps, outcomes, callResult>>
    /\ UNCHANGED <<lifeVars, obsVars>>
    /\ UNCHANGED frontVars
    /\ UNCHANGED <<doorVars, uiVars, histVars, clipVars>>

\* The request is marshalled and HTTPClient.Do is entered.
CallSend ==
    /\ callPc = "send"
    /\ sent' = Append(sent, khojReq)
    /\ callPc' = "inflight"
    /\ UNCHANGED <<attempt, lastErr, ctx, khojReq, sleeps, outcomes, callResult>>
    /\ UNCHANGED <<lifeVars, obsVars>>
    /\ UNCHANGED frontVars
    /\ UNCHANGED <<doorVars, uiVars, histVars, clipVars>>

\* The rest of the loop body for the attempt's outcome.
CallOutcome(resp) ==
    /\ outcomes' = Append(outcomes, resp)
    /\ LET v == AttemptVerdict(resp) IN
         /\ lastErr' = IF v = "ok" THEN lastErr ELSE AttemptError(resp)
         /\ attempt' = IF v = "continue" THEN attempt + 1 ELSE attempt
         /\ callPc' = IF v = "continue" THEN "loop" ELSE "done"
         /\ callResult' = IF v = "ok" THEN [kind |-> "ok", err |-> NoErr]
                          ELSE IF v = "return"
                          THEN [kind |-> "error", err |-> AttemptError(resp)]
                          ELSE callResult
    /\ UNCHANGED <<ctx, khojReq, sent, sleeps>>
    /\ UNCHANGED <<lifeVars, obsVars>>
    /\ UNCHANGED frontVars
    /\ UNCHANGED <<doorVars, uiVars, histVars, clipVars>>

\* The backend (or the network) answers the attempt in flight.
CallRespond ==
    /\ callPc = "inflight"
    /\ RequestContext(ctx) = "live"
    /\ \E resp \in ChatResponses : CallOutcome(resp)

\* The request's context is done: HTTPClient.Do (or the body read) returns
\* the context's error.
CallAbort ==
    /\ callPc = "inflight"
    /\ RequestContext(ctx) \in {"canceled", "deadline"}
    /\ CallOutcome(ContextError(RequestContext(ctx)))

\* The caller disconnects: the per-request context is cancelled.
CtxCancel ==
    /\ callPc \in {"loop", "sleep", "send", "inflight"}
    /\ ctx = "live"
    /\ ctx' = "canceled"
    /\ UNCHANGED <<callPc, attempt, lastErr, khojReq, sent, sleeps, outcomes,
                   callResult>>
    /\ UNCHANGED <<lifeVars, obsVars>>
    /\ UNCHANGED frontVars
    /\ UNCHANGED <<doorVars, uiVars, histVars, clipVars>>

\* The deadline of the caller's context passes.
CtxDeadline ==
    /\ callPc \in {"loop", "sleep", "send", "inflight"}
    /\ ctx = "live"
    /\ ctx' = "deadline"
    /\ UNCHANGED <<callPc, attempt, lastErr, khojReq, sent, sleeps, outcomes,
                   callResult>>
    /\ UNCHANGED <<lifeVars, obsVars>>
    /\ UNCHANGED frontVars
    /\ UNCHANGED <<doorVars, uiVars, histVars, clipVars>>

\* HandleChatCompletion returns and the handler ends.
CallReturn ==
    /\ callPc = "done"
    /\ callPc' = "idle"
    /\ UNCHANGED <<attempt, lastErr, ctx, khojReq, sent, sleeps, outcomes,
                   callResult>>
    /\ UNCHANGED <<lifeVars, obsVars>>
    /\ UNCHANGED frontVars
    /\ UNCHANGED <<doorVars, uiVars, histVars, clipVars>>

\* A running server after a first run: the session was created at start.
FirstRunServing ==
    /\ flagConversationID = ""
    /\ flagNewConversation = FALSE
    /\ apiKeySet = TRUE
    /\ menuBudget = MaxMenuOps
    /\ conversationID \in BackendHandles
    /\ currentAgentSlug = defaultAgentSlug
    /\ file = StateFile(conversationID, currentAgentSlug)
    /\ newConversation = FALSE
    /\ mainPc = "tray"
    /\ srvPc = "serving"
    /\ running = TRUE
    /\ srvSet = TRUE
    /\ srvState = ConversationState(conversationID, currentAgentSlug)
    /\ menuPc = "idle"
    /\ menuOp = "none"
    /\ menuErr = "none"
    /\ menuState = NoState
    /\ mStartEnabled = FALSE
    /\ mStopEnabled = TRUE
    /\ startCreates = 1
    /\ chkSeen = [done |-> TRUE, nc |-> TRUE, id |-> ""]
    /\ sentAgent = defaultAgentSlug
    /\ gotHandle = conversationID
    /\ startFailed = FALSE
    /\ startSaved = FALSE
    /\ fileReads = 1
    /\ carried = NotServed
    /\ handleEdits = FALSE
    /\ menuOps = 0
    /\ starts = 1
    /\ convTitle = ConvTitle("")
    /\ menuBefore = NoState
    /\ ClipIdle

InitChat ==
    /\ FirstRunServing
    /\ CallIdle
    /\ FrontIdle
    /\ DoorIdle

NextChat ==
    \/ CallStart
    \/ CallLoop
    \/ CallSleep
    \/ CallSend
    \/ CallRespond
    \/ CallAbort
    \/ CtxCancel
    \/ CtxDeadline
    \/ CallReturn

SpecChat == InitChat /\ [][NextChat]_vars

\* The Go runtime delivers a cancellation to the call in flight.
FairChat == SpecChat /\ WF_vars(CallAbort)

\* ========================================= /v1/chat/completions, one request
\* ------------------------------------------------------- program constants
\* isLargeContent := len(msg.Content) > 10000
largeContentLimit == 10000
\* chunkSize := 50
chunkSize == 50

\* ------------------------------------------------------------------ inputs
MaxMessages == 2

HtmlPage == Pad("<html><body>", largeContentLimit + 1)
HtmlAtLimit == Pad("<html><body>", largeContentLimit)
LongPlain == Pad("release notes ", largeContentLimit + 1)
IndexPage == Pad("<!DOCTYPE html> index.html ", largeContentLimit + 1)

\* Messages of an ordinary conversation.
ChatMessages ==
    {[Role |-> "user", Content |-> "hi"],
     [Role |-> "assistant", Content |-> "hello, how can I help?"],
     [Role |-> "system", Content |-> ""]}

\* Messages around the file rule: a page, a page of exactly the limit, a
\* long text that is no page, a page that names index.html.
PageMessages ==
    {[Role |-> "user", Content |-> "hi"],
     [Role |-> "user", Content |-> HtmlPage],
     [Role |-> "user", Content |-> HtmlAtLimit],
     [Role |-> "system", Content |-> LongPlain],
     [Role |-> "assistant", Content |-> IndexPage]}

MessageLists(msgs) == UNION {[1..n -> msgs] : n \in 0..MaxMessages}

\* The decoded ChatCompletionRequest.
Requests == [Stream : BOOLEAN, Messages : MessageLists(ChatMessages)]
PageRequests == [Stream : BOOLEAN, Messages : MessageLists(PageMessages)]

\* khojResp.Response of a successful upstream call (json.Unmarshal yields
\* valid UTF-8): empty, short, exactly one chunk, 120 bytes, and a text whose
\* two-byte character lies across the end of the first chunk.
Completions ==
    {"", "hello", Pad("a", chunkSize), Pad("b", 2 * chunkSize + 20),
     Pad("c", chunkSize - 1) \o TwoByteChar \o "yz"}

\* The errors callKhojAPI returns: a client error of the backend, the last
\* error after the attempts ran out (a 5xx status, the client's timeout, an
\* undecodable body), the context's deadline.
UpstreamFailures ==
    {AttemptError([kind |-> "http", status |-> 404, body |-> "json"]),
     AttemptError([kind |-> "http", status |-> 503, body |-> "garbage"]),
     AttemptError([kind |-> "transport", status |-> 0, body |-> "timeout"]),
     AttemptError([kind |-> "http", status |-> 200, body |-> "garbage"]),
     DeadlineError}

\* What callKhojAPI returns to HandleChatCompletion.
UpstreamResults ==
    {[kind |-> "ok", Response |-> c, err |-> NoErr] : c \in Completions} \cup
    {[kind |-> "err", Response |-> "", err |-> e] : e \in UpstreamFailures}

\* --------------------------------------------------------------- the mux
\* The endpoints the readme lists.
DocumentedEndpoints ==
    {"/health", "/v1/chat/completions", "/v1/completions", "/v1/models"}

\* mux.HandleFunc in startServer of the tray program.
TrayRoutes == {"/health", "/v1/chat/completions"}

\* http.HandleFunc in main of the stand-alone provider.
ProviderRoutes ==
    {"/health", "/v1/chat/completions", "/v1/completions", "/v1/models"}

Paths == DocumentedEndpoints \cup {"/v1/embeddings"}
Methods == {"POST", "GET", "OPTIONS"}

\* The body of a request: JSON that decodes into the handler's request
\* struct ("chat"), no JSON at all, JSON that is no object, a JSON object
\* whose fields have the wrong types, or a body whose read fails.
Bodies == {"chat", "garbage", "array", "mistyped", "unreadable"}
InboundRequests == [Path : Paths, Method : Methods, Body : Bodies]

\* http.ServeMux for patterns without a trailing slash: the handler
\* registered for exactly this path, or NotFound.
Mux(routes, path) == IF path \in routes THEN path ELSE "NotFound"

\* Faulty variant: no CORS header is set.
enableCORSNone(h) == h

\* enableCORS: Access-Control-Allow-Origin is set to "*".
enableCORS(h) == "*"

\* Faulty variant: the second json.Unmarshal's error is ignored.
ChatHandlerEntryIgnoresTypes(in) ==
    IF in.Method = "OPTIONS" THEN [status |-> 200, read |-> FALSE, accept |-> FALSE]
    ELSE IF in.Method # "POST" THEN [status |-> 405, read |-> FALSE, accept |-> FALSE]
    ELSE IF in.Body = "unreadable" THEN [status |-> 400, read |-> TRUE, accept |-> FALSE]
    ELSE IF in.Body \in {"garbage", "array"}
    THEN [status |-> 400, read |-> TRUE, accept |-> FALSE]
    ELSE [status |-> 0, read |-> TRUE, accept |-> TRUE]

\* The /v1/chat/completions handler up to the decoded request: the status
\* it answers with when it returns early, whether io.ReadAll was called, and
\* whether it goes on with the request.  The body is unmarshalled twice,
\* into a map and into ChatCompletionRequest.
ChatHandlerEntry(in) ==
    IF in.Method = "OPTIONS" THEN [status |-> 200, read |-> FALSE, accept |-> FALSE]
    ELSE IF in.Method # "POST" THEN [status |-> 405, read |-> FALSE, accept |-> FALSE]
    ELSE IF in.Body = "unreadable" THEN [status |-> 400, read |-> TRUE, accept |-> FALSE]
    ELSE IF in.Body \in {"garbage", "array"}
    THEN [status |-> 400, read |-> TRUE, accept |-> FALSE]
    ELSE IF in.Body = "mistyped"
    THEN [status |-> 400, read |-> TRUE, accept |-> FALSE]
    ELSE [status |-> 0, read |-> TRUE, accept |-> TRUE]

\* Faulty variant: the backend's status is handed to the client.
FailureStatusPassThrough(r) == IF r.err.status >= 400 THEN r.err.status ELSE 500

\* http.Error(w, "Internal server error", http.StatusInternalServerError)
FailureStatus(r) == 500

\* ------------------------------------------- HandleChatCompletion: prompt
\* Faulty variant: a content of exactly the limit counts as large.
IsLargeContentInclusive(content) == Len(content) >= largeContentLimit

IsLargeContent(content) == Len(content) > largeContentLimit

ContainsHTML(content) ==
    Contains(content, "<!DOCTYPE html>") \/ Contains(content, "<html")

\* if isLargeContent && containsHTML
IsFileContent(content) == IsLargeContent(content) /\ ContainsHTML(content)

FileName(content) ==
    IF Contains(content, "index.html") THEN "index.html" ELSE "main.html"

KhojFile(content) ==
    [Name |-> FileName(content), Content |-> content, FileType |-> "html",
     Size |-> Len(content)]

\* fmt.Sprintf("[File: %s (%d bytes) - sent in files array]", ...)
FileReference(content) ==
    "[File: " \o FileName(content) \o " (" \o ToString(Len(content)) \o
    " bytes) - sent in files array]"

MessageContent(msg) ==
    IF IsFileContent(msg.Content) THEN FileReference(msg.Content)
    ELSE msg.Content

\* Faulty variant: the line carries no newline.
PromptLineNoNewline(msg) == msg.Role \o ": " \o MessageContent(msg)

\* Faulty variant: the line carries no role.
PromptLineNoRole(msg) == MessageContent(msg) \o "\n"

\* fmt.Sprintf("%s: %s\n", msg.Role, messageContent)
PromptLine(msg) == msg.Role \o ": " \o MessageContent(msg) \o "\n"

RECURSIVE BuildPrompt(_)
\* The loop over req.Messages writing to the strings.Builder.
BuildPrompt(msgs) ==
    IF msgs = <<>> THEN ""
    ELSE PromptLine(Head(msgs)) \o BuildPrompt(Tail(msgs))

RECURSIVE BuildFiles(_)
\* The same loop appending to files.
BuildFiles(msgs) ==
    IF msgs = <<>> THEN <<>>
    ELSE IF IsFileContent(Head(msgs).Content)
    THEN <<KhojFile(Head(msgs).Content)>> \o BuildFiles(Tail(msgs))
    ELSE BuildFiles(Tail(msgs))

\* Faulty variant: the caller's stream flag is passed on.
NewKhojRequestPassStream(r, q, id, fs) ==
    [Q |-> q, Stream |-> r.Stream, ConversationID |-> id,
     ClientID |-> "khoj-provider-continue", Files |-> fs]

\* khojReq := &KhojRequest{...}
NewKhojRequest(r, q, id, fs) ==
    [Q |-> q, Stream |-> FALSE, ConversationID |-> id,
     ClientID |-> "khoj-provider-continue", Files |-> fs]

\* -------------------------------------- the unsynchronised handle read
\* conversationID is a two-word value (data pointer, length) that the menu
\* goroutine stores and the handler loads with no synchronisation.  A load
\* whose two words come from different values sees the bytes at one value's
\* pointer with the other value's length: a prefix of it, or it followed by
\* whatever lies behind it in memory (written "?").
StringWords(p, l) ==
    IF Len(l) <= Len(p) THEN SubSeq(p, 1, Len(l))
    ELSE p \o Repeat("?", Len(l) - Len(p))

\* The values a load can yield when the variable held first and then second.
StringLoads(first, second) ==
    {StringWords(first, second), StringWords(second, first)}

\* ------------------------------------------ HandleChatCompletion: response
\* Faulty variant: the total is the sum of the two counts.
TotalTokensAdditive(p, c) == (Len(p) \div 4) + (Len(c) \div 4)

TotalTokens(p, c) == (Len(p) + Len(c)) \div 4

\* response := &ChatCompletionResponse{...}
ChatCompletionResponse(p, c) ==
    [Content |-> c,
     PromptTokens |-> Len(p) \div 4,
     CompletionTokens |-> Len(c) \div 4,
     TotalTokens |-> TotalTokens(p, c)]

\* ------------------------------------------------------------- SSE frames
\* A frame is what follows "data: "; the strings in it went through
\* json.Marshal.
ContentFrame(text) ==
    [kind |-> "content", content |-> ToValidUTF8(text), finish |-> "null"]
FinalFrame == [kind |-> "final", content |-> "", finish |-> "stop"]
DoneFrame == [kind |-> "done", content |-> "[DONE]", finish |-> ""]
ErrorFrame == [kind |-> "error", content |-> "khoj API call failed",
               finish |-> "api_error"]

\* Faulty variant: the error frame is followed by the sentinel.
ErrorFramesWithDone == <<ErrorFrame, DoneFrame>>

\* What handleStreamingRequest writes when HandleChatCompletion failed.
ErrorFrames == <<ErrorFrame>>

\* end := i + chunkSize; if end > len(content) { end = len(content) }
ChunkEnd(content, i) ==
    IF i + chunkSize > Len(content) THEN Len(content) ELSE i + chunkSize

\* ----------------------------------------------------------------- actions
\* The handler has decoded a POST body into req; for a streaming request
\* handleStreamingRequest has set its headers.
FrontAccept ==
    /\ reqPc = "idle"
    /\ srvPc = "serving"
    /\ \E in \in InboundRequests :
         /\ Mux(TrayRoutes, in.Path) = "/v1/chat/completions"
         /\ ChatHandlerEntry(in).accept
         /\ inbound' = in
         /\ bodyRead' = ChatHandlerEntry(in).read
         /\ \E r \in IF in.Body = "chat" THEN Requests ELSE {NoRequest} :
              /\ req' = r
              /\ hdrOrigin' = IF r.Stream THEN "*" ELSE enableCORS(hdrOrigin)
    /\ reqPc' = "translate"
    /\ activeSeen' = {conversationID}
    /\ UNCHANGED <<rctx, loaded, prompt, files, upReq, upCalls, upResult,
                   httpStatus, response, chunkAt, frames, writeFailed,
                   framesAtCancel, completion>>
    /\ UNCHANGED <<lifeVars, obsVars, callVars>>
    /\ UNCHANGED <<uiVars, histVars, clipVars>>

\* The handler returns early: OPTIONS, another method than POST, a body
\* that cannot be read or is not the JSON of a chat request.
FrontReject ==
    /\ reqPc = "idle"
    /\ srvPc = "serving"
    /\ \E in \in InboundRequests :
         /\ Mux(TrayRoutes, in.Path) = "/v1/chat/completions"
         /\ ~ChatHandlerEntry(in).accept
         /\ inbound' = in
         /\ hdrOrigin' = enableCORS(hdrOrigin)
         /\ bodyRead' = ChatHandlerEntry(in).read
         /\ httpStatus' = ChatHandlerEntry(in).status
    /\ reqPc' = "closed"
    /\ UNCHANGED <<req, rctx, loaded, prompt, files, upReq, upCalls, upResult,
                   response, chunkAt, frames, writeFailed, framesAtCancel,
                   activeSeen, completion>>
    /\ UNCHANGED <<lifeVars, obsVars, callVars>>
    /\ UNCHANGED <<uiVars, histVars, clipVars>>

\* The /health handler: 200 and {"status": "healthy"}, whatever the method.
FrontHealth ==
    /\ reqPc = "idle"
    /\ srvPc = "serving"
    /\ \E in \in InboundRequests :
         /\ Mux(TrayRoutes, in.Path) = "/health"
         /\ inbound' = in
    /\ httpStatus' = 200
    /\ reqPc' = "closed"
    /\ UNCHANGED <<req, rctx, loaded, prompt, files, upReq, upCalls, upResult,
                   response, chunkAt, frames, writeFailed, framesAtCancel,
                   activeSeen, hdrOrigin, bodyRead, completion>>
    /\ UNCHANGED <<lifeVars, obsVars, callVars>>
    /\ UNCHANGED <<uiVars, histVars, clipVars>>

\* No pattern of the mux matches: http.NotFound.
FrontNotFound ==
    /\ reqPc = "idle"
    /\ srvPc = "serving"
    /\ \E in \in InboundRequests :
         /\ Mux(TrayRoutes, in.Path) = "NotFound"
         /\ inbound' = in
    /\ httpStatus' = 404
    /\ reqPc' = "closed"
    /\ UNCHANGED <<req, rctx, loaded, prompt, files, upReq, upCalls, upResult,
                   response, chunkAt, frames, writeFailed, framesAtCancel,
                   activeSeen, hdrOrigin, bodyRead, completion>>
    /\ UNCHANGED <<lifeVars, obsVars, callVars>>
    /\ UNCHANGED <<uiVars, histVars, clipVars>>

\* HandleChatCompletion: the loop over the messages.
Translate ==
    /\ reqPc = "translate"
    /\ prompt' = BuildPrompt(req.Messages)
    /\ files' = BuildFiles(req.Messages)
    /\ reqPc' = "load"
    /\ activeSeen' = activeSeen \cup {conversationID}
    /\ UNCHANGED <<req, rctx, loaded, upReq, upCalls, upResult, httpStatus,
                   response, chunkAt, frames, writeFailed, framesAtCancel>>
    /\ UNCHANGED <<lifeVars, obsVars, callVars>>
    /\ UNCHANGED <<doorVars, uiVars, histVars, clipVars>>

\* The first word of conversationID is loaded.
LoadHandle ==
    /\ reqPc = "load"
    /\ loaded' = conversationID
    /\ reqPc' = "build"
    /\ activeSeen' = activeSeen \cup {conversationID}
    /\ UNCHANGED <<req, rctx, prompt, files, upReq, upCalls, upResult,
                   httpStatus, response, chunkAt, frames, writeFailed,
                   framesAtCancel>>
    /\ UNCHANGED <<lifeVars, obsVars, callVars>>
    /\ UNCHANGED <<doorVars, uiVars, histVars, clipVars>>

\* The second word is loaded, khojReq is built and callKhojAPI is entered.
BuildUpstream ==
    /\ reqPc = "build"
    /\ \E id \in StringLoads(loaded, conversationID) :
         upReq' = NewKhojRequest(req, prompt, id, files)
    /\ upCalls' = upCalls + 1
    /\ reqPc' = "call"
    /\ activeSeen' = activeSeen \cup {conversationID}
    /\ UNCHANGED <<req, rctx, loaded, prompt, files, upResult, httpStatus,
                   response, chunkAt, frames, writeFailed, framesAtCancel>>
    /\ UNCHANGED <<lifeVars, obsVars, callVars>>
    /\ UNCHANGED <<doorVars, uiVars, histVars, clipVars>>

\* callKhojAPI returns (with a done context only an error), and
\* HandleChatCompletion returns the response built from it, or the error.
UpstreamReturn ==
    /\ reqPc = "call"
    /\ \E r \in UpstreamResults :
         /\ rctx = "canceled" => r.kind = "err"
         /\ upResult' = r
         /\ response' = IF r.kind = "ok"
                        THEN ChatCompletionResponse(prompt, r.Response)
                        ELSE NoResponse
    /\ reqPc' = "returned"
    /\ UNCHANGED <<req, rctx, loaded, prompt, files, upReq, upCalls,
                   httpStatus, chunkAt, frames, writeFailed, framesAtCancel,
                   activeSeen>>
    /\ UNCHANGED <<lifeVars, obsVars, callVars>>
    /\ UNCHANGED <<doorVars, uiVars, histVars, clipVars>>

\* The handler answers: the JSON body or "Internal server error" for a plain
\* request; for a streaming one the error frame, or the chunk loop begins.
Respond ==
    /\ reqPc = "returned"
    /\ inbound.Path = "/v1/chat/completions"
    /\ IF ~req.Stream
       THEN /\ httpStatus' = IF upResult.kind = "err"
                              THEN FailureStatus(upResult) ELSE 200
            /\ reqPc' = "closed"
            /\ UNCHANGED frames
       ELSE /\ httpStatus' = 200
            /\ IF upResult.kind = "err"
               THEN /\ frames' = frames \o ErrorFrames
                    /\ reqPc' = "closed"
               ELSE /\ reqPc' = "stream"
                    /\ UNCHANGED frames
    /\ chunkAt' = 0
    /\ UNCHANGED <<req, rctx, loaded, prompt, files, upReq, upCalls, upResult,
                   response, writeFailed, framesAtCancel, activeSeen>>
    /\ UNCHANGED <<lifeVars, obsVars, callVars>>
    /\ UNCHANGED <<doorVars, uiVars, histVars, clipVars>>

\* One turn of the chunk loop: the select on ctx.Done(), then the write,
\* which may fail.
StreamChunk ==
    /\ reqPc = "stream"
    /\ chunkAt < Len(response.Content)
    /\ IF rctx = "canceled"
       THEN /\ reqPc' = "closed"
            /\ UNCHANGED <<frames, chunkAt, writeFailed>>
       ELSE \E ok \in BOOLEAN :
              IF ok
              THEN /\ frames' = Append(frames,
                        ContentFrame(Slice(response.Content, chunkAt,
                                           ChunkEnd(response.Content, chunkAt))))
                   /\ chunkAt' = chunkAt + chunkSize
                   /\ UNCHANGED <<reqPc, writeFailed>>
              ELSE /\ writeFailed' = TRUE
                   /\ reqPc' = "closed"
                   /\ UNCHANGED <<frames, chunkAt>>
    /\ UNCHANGED <<req, rctx, loaded, prompt, files, upReq, upCalls, upResult,
                   httpStatus, response, framesAtCancel, activeSeen>>
    /\ UNCHANGED <<lifeVars, obsVars, callVars>>
    /\ UNCHANGED <<doorVars, uiVars, histVars, clipVars>>

\* After the loop: the final chunk and the sentinel are written.
StreamFinal ==
    /\ reqPc = "stream"
    /\ chunkAt >= Len(response.Content)
    /\ frames' = frames \o <<FinalFrame, DoneFrame>>
    /\ reqPc' = "closed"
    /\ UNCHANGED <<req, rctx, loaded, prompt, files, upReq, upCalls, upResult,
                   httpStatus, response, chunkAt, writeFailed, framesAtCancel,
                   activeSeen>>
    /\ UNCHANGED <<lifeVars, obsVars, callVars>>
    /\ UNCHANGED <<doorVars, uiVars, histVars, clipVars>>

\* The caller disconnects or its deadline passes: r.Context() is done.
FrontCancel ==
    /\ reqPc \notin {"idle", "closed"}
    /\ rctx = "live"
    /\ rctx' = "canceled"
    /\ framesAtCancel' = Len(frames)
    /\ UNCHANGED <<reqPc, req, loaded, prompt, files, upReq, upCalls, upResult,
                   httpStatus, response, chunkAt, frames, writeFailed,
                   activeSeen>>
    /\ UNCHANGED <<lifeVars, obsVars, callVars>>
    /\ UNCHANGED <<doorVars, uiVars, histVars, clipVars>>

\* The handler returned; the next request finds a fresh handler.
FrontReturn ==
    /\ reqPc = "closed"
    /\ reqPc' = "idle"
    /\ req' = NoRequest
    /\ rctx' = "live"
    /\ loaded' = ""
    /\ prompt' = ""
    /\ files' = <<>>
    /\ upReq' = NoUpstream
    /\ upCalls' = 0
    /\ upResult' = NoResult
    /\ httpStatus' = 0
    /\ response' = NoResponse
    /\ chunkAt' = 0
    /\ frames' = <<>>
    /\ writeFailed' = FALSE
    /\ framesAtCancel' = 0
    /\ activeSeen' = {}
    /\ inbound' = NoInbound
    /\ hdrOrigin' = ""
    /\ bodyRead' = FALSE
    /\ completion' = NoCompletion
    /\ UNCHANGED <<lifeVars, obsVars, callVars>>
    /\ UNCHANGED <<uiVars, histVars, clipVars>>

NextFront ==
    \/ FrontAccept
    \/ FrontReject
    \/ FrontHealth
    \/ FrontNotFound
    \/ Translate
    \/ LoadHandle
    \/ BuildUpstream
    \/ UpstreamReturn
    \/ Respond
    \/ StreamChunk
    \/ StreamFinal
    \/ FrontCancel
    \/ FrontReturn
    \/ \E newID \in UserHandles \cup {""} : updateConversationID(newID)
    \/ MenuBuildState
    \/ MenuSave

SpecFront == InitChat /\ [][NextFront]_vars

\* ------------------------------------------- the translation on its own
\* A request with pages in it has reached HandleChatCompletion.
InitTranslate ==
    /\ FirstRunServing
    /\ CallIdle
    /\ req \in PageRequests
    /\ reqPc = "translate"
    /\ rctx = "live"
    /\ loaded = ""
    /\ prompt = ""
    /\ files = <<>>
    /\ upReq = NoUpstream
    /\ upCalls = 0
    /\ upResult = NoResult
    /\ httpStatus = 0
    /\ response = NoResponse
    /\ chunkAt = 0
    /\ frames = <<>>
    /\ writeFailed = FALSE
    /\ framesAtCancel = 0
    /\ activeSeen = {conversationID}
    /\ DoorIdle

NextTranslate ==
    \/ Translate
    \/ LoadHandle
    \/ BuildUpstream

SpecTranslate == InitTranslate /\ [][NextTranslate]_vars

\* --------------------------------------- a chat call while the handle is edited
\* The request of this specification: a greeting with a page.
RetryRequests ==
    {[Stream |-> FALSE, Messages |-> <<[Role |-> "user", Content |-> "hi"],
                                       [Role |-> "user", Content |-> HtmlPage]>>]}

\* HandleChatCompletion hands the khojReq it built to callKhojAPI.
CallEnter ==
    /\ reqPc = "call"
    /\ callPc = "idle"
    /\ callResult.kind = "none"
    /\ khojReq' = upReq
    /\ callPc' = "loop"
    /\ UNCHANGED <<attempt, lastErr, ctx, sent, sleeps, outcomes, callResult>>
    /\ UNCHANGED <<lifeVars, obsVars>>
    /\ UNCHANGED frontVars
    /\ UNCHANGED <<doorVars, uiVars, histVars, clipVars>>

\* A request has reached HandleChatCompletion of the running server, whose
\* session is "conv-2".
InitRetry ==
    /\ FirstRunServing
    /\ conversationID = "conv-2"
    /\ CallIdle
    /\ req \in RetryRequests
    /\ reqPc = "translate"
    /\ rctx = "live"
    /\ loaded = ""
    /\ prompt = ""
    /\ files = <<>>
    /\ upReq = NoUpstream
    /\ upCalls = 0
    /\ upResult = NoResult
    /\ httpStatus = 0
    /\ response = NoResponse
    /\ chunkAt = 0
    /\ frames = <<>>
    /\ writeFailed = FALSE
    /\ framesAtCancel = 0
    /\ activeSeen = {conversationID}
    /\ DoorIdle

\* The translation, the attempts of the call, and the menu goroutine editing
\* the handle meanwhile.
NextRetry ==
    \/ Translate
    \/ LoadHandle
    \/ BuildUpstream
    \/ CallEnter
    \/ CallLoop
    \/ CallSleep
    \/ CallSend
    \/ CallRespond
    \/ CallReturn
    \/ \E newID \in UserHandles : updateConversationID(newID)
    \/ MenuBuildState
    \/ MenuSave

SpecRetry == InitRetry /\ [][NextRetry]_vars

\* ============================================================ clipboard AI
\* processClipboardWithAI on Windows.  Every trigger starts the function in
\* a goroutine of its own: the keyboard poller on the rising edge of Ctrl+Q,
\* the clipboard menu loop on a click.
TriggerSources == {"hotkey", "menu"}

\* The trigger's goroutine is started (go processClipboardWithAI()).
Trigger(src) ==
    /\ mainPc = "tray"
    /\ Len(clip) < MaxTriggers
    /\ clip' = Append(clip, [src |-> src, pc |-> "test"])
    /\ UNCHANGED clipboardActive
    /\ UNCHANGED <<lifeVars, obsVars, callVars, frontVars>>
    /\ UNCHANGED <<doorVars, uiVars, histVars>>

\* if clipboardActive { ...; return }
GuardTest(i) ==
    /\ i \in 1..Len(clip)
    /\ clip[i].pc = "test"
    /\ clip' = [clip EXCEPT ![i].pc = IF clipboardActive THEN "rejected" ELSE "set"]
    /\ UNCHANGED clipboardActive
    /\ UNCHANGED <<lifeVars, obsVars, callVars, frontVars>>
    /\ UNCHANGED <<doorVars, uiVars, histVars>>

\* clipboardActive = true
GuardSet(i) ==
    /\ i \in 1..Len(clip)
    /\ clip[i].pc = "set"
    /\ clipboardActive' = TRUE
    /\ clip' = [clip EXCEPT ![i].pc = "prepare"]
    /\ UNCHANGED <<lifeVars, obsVars, callVars, frontVars>>
    /\ UNCHANGED <<doorVars, uiVars, histVars>>

\* The rest of the function body: the clipboard is read and the prompt
\* dialog is shown.  The function returns early (clipboard unreadable or
\* empty, dialog cancelled, no API key), or it starts the goroutine that
\* calls sendToKhojChat and returns.  Either way its deferred function
\* runs at the return: clipboardActive = false.
Prepare(i) ==
    /\ i \in 1..Len(clip)
    /\ clip[i].pc = "prepare"
    /\ \E go \in BOOLEAN :
         clip' = [clip EXCEPT ![i].pc = IF go THEN "calling" ELSE "dropped"]
    /\ clipboardActive' = FALSE
    /\ UNCHANGED <<lifeVars, obsVars, callVars, frontVars>>
    /\ UNCHANGED <<doorVars, uiVars, histVars>>

\* sendToKhojChat returns in the inner goroutine: an error ends it, an
\* answer goes on to sendText.
sendToKhojChat(i) ==
    /\ i \in 1..Len(clip)
    /\ clip[i].pc = "calling"
    /\ \E ok \in BOOLEAN :
         clip' = [clip EXCEPT ![i].pc = IF ok THEN "inserting" ELSE "failed"]
    /\ UNCHANGED clipboardActive
    /\ UNCHANGED <<lifeVars, obsVars, callVars, frontVars>>
    /\ UNCHANGED <<doorVars, uiVars, histVars>>

\* sendText has inserted the answer, or has failed.
sendText(i) ==
    /\ i \in 1..Len(clip)
    /\ clip[i].pc = "inserting"
    /\ clip' = [clip EXCEPT ![i].pc = "done"]
    /\ UNCHANGED clipboardActive
    /\ UNCHANGED <<lifeVars, obsVars, callVars, frontVars>>
    /\ UNCHANGED <<doorVars, uiVars, histVars>>

\* The tray runs and no clipboard request was triggered yet.
InitClipboard ==
    /\ FirstRunServing
    /\ CallIdle
    /\ FrontIdle
    /\ DoorIdle

NextClipboard ==
    \/ \E src \in TriggerSources : Trigger(src)
    \/ \E i \in 1..MaxTriggers : GuardTest(i)
    \/ \E i \in 1..MaxTriggers : GuardSet(i)
    \/ \E i \in 1..MaxTriggers : Prepare(i)
    \/ \E i \in 1..MaxTriggers : sendToKhojChat(i)
    \/ \E i \in 1..MaxTriggers : sendText(i)

SpecClipboard == InitClipboard /\ [][NextClipboard]_vars

\* ===================================================== stand-alone provider
\* khoj_provider.go: main registers four handlers on the default mux and
\* listens; there is no tray, no state file and no active handle: every
\* upstream request carries the constant continueConversationID.
continueConversationID == "96b2b033-f967-4fbd-af86-dd92001538a7"

\* Prompts of /v1/completions requests; two of them hold an HTML marker.
Prompts ==
    {"", "hi", "write a haiku", "<html><body>hi</body></html>",
     "fix this: <!DOCTYPE html><title>t</title>"}

\* The /v1/completions handler up to the decoded request; the body is
\* unmarshalled once, into the handler's own struct.
CompletionsHandlerEntry(in) ==
    IF in.Method = "OPTIONS" THEN [status |-> 200, read |-> FALSE, accept |-> FALSE]
    ELSE IF in.Method # "POST" THEN [status |-> 405, read |-> FALSE, accept |-> FALSE]
    ELSE IF in.Body = "unreadable" THEN [status |-> 400, read |-> TRUE, accept |-> FALSE]
    ELSE IF in.Body # "chat" THEN [status |-> 400, read |-> TRUE, accept |-> FALSE]
    ELSE [status |-> 0, read |-> TRUE, accept |-> TRUE]

\* isApplyRequest := strings.Contains(req.Prompt, "<!DOCTYPE html>") ||
\*                   strings.Contains(req.Prompt, "<html")
IsApplyRequest(p) == Contains(p, "<!DOCTYPE html>") \/ Contains(p, "<html")

\* chatReq := &ChatCompletionRequest{Messages: []Message{{"user", Prompt}}, ...}
CompletionChatRequest(p, stream) ==
    [Stream |-> stream, Messages |-> <<[Role |-> "user", Content |-> p]>>]

\* The file the apply branch compares the prompt with.
applyFilepath ==
    "file:///c:/Users/rene.zander/dev/ProjectImpactWorkflowWithAI/app/main.html"

\* The text/plain answer of the apply branch: a unified diff of the file on
\* the local disk against the prompt.  Every such diff begins with these
\* two lines; its hunks are not modelled.  The answer is no JSON object.
ApplyDiff ==
    [Object |-> "",
     Text |-> "--- a/" \o applyFilepath \o "\n+++ b/" \o applyFilepath \o "\n",
     PromptTokens |-> 0, CompletionTokens |-> 0, TotalTokens |-> 0]

\* completionResp: the chat response reshaped.
TextCompletion(r) ==
    [Object |-> "text_completion", Text |-> r.Content,
     PromptTokens |-> r.PromptTokens, CompletionTokens |-> r.CompletionTokens,
     TotalTokens |-> r.TotalTokens]

\* The /v1/chat/completions handler of the provider up to the decoded
\* request, or to its early return.
ProviderChatEnter ==
    /\ reqPc = "idle"
    /\ \E in \in InboundRequests :
         /\ Mux(ProviderRoutes, in.Path) = "/v1/chat/completions"
         /\ inbound' = in
         /\ bodyRead' = ChatHandlerEntry(in).read
         /\ IF ChatHandlerEntry(in).accept
            THEN /\ \E r \in IF in.Body = "chat" THEN Requests ELSE {NoRequest} :
                      /\ req' = r
                      /\ hdrOrigin' = IF r.Stream THEN "*" ELSE enableCORS(hdrOrigin)
                 /\ reqPc' = "ptranslate"
                 /\ UNCHANGED httpStatus
            ELSE /\ hdrOrigin' = enableCORS(hdrOrigin)
                 /\ httpStatus' = ChatHandlerEntry(in).status
                 /\ reqPc' = "closed"
                 /\ UNCHANGED req
    /\ UNCHANGED <<rctx, loaded, prompt, files, upReq, upCalls, upResult,
                   response, chunkAt, frames, writeFailed, framesAtCancel,
                   activeSeen, completion>>
    /\ UNCHANGED <<lifeVars, obsVars, callVars>>
    /\ UNCHANGED <<uiVars, histVars, clipVars>>

\* The /v1/completions handler up to its call of HandleChatCompletion: the
\* early returns, the apply branch, or the prompt rewrapped as one user
\* message.
CompletionsEnter ==
    /\ reqPc = "idle"
    /\ \E in \in InboundRequests :
         /\ Mux(ProviderRoutes, in.Path) = "/v1/completions"
         /\ inbound' = in
         /\ hdrOrigin' = enableCORS(hdrOrigin)
         /\ bodyRead' = CompletionsHandlerEntry(in).read
         /\ IF ~CompletionsHandlerEntry(in).accept
            THEN /\ httpStatus' = CompletionsHandlerEntry(in).status
                 /\ reqPc' = "closed"
                 /\ UNCHANGED <<req, completion>>
            ELSE \E p \in Prompts, stream \in BOOLEAN :
                   IF IsApplyRequest(p)
                   THEN /\ completion' = ApplyDiff
                        /\ httpStatus' = 200
                        /\ reqPc' = "closed"
                        /\ UNCHANGED req
                   ELSE /\ req' = CompletionChatRequest(p, stream)
                        /\ reqPc' = "ptranslate"
                        /\ UNCHANGED <<httpStatus, completion>>
    /\ UNCHANGED <<rctx, loaded, prompt, files, upReq, upCalls, upResult,
                   response, chunkAt, frames, writeFailed, framesAtCancel,
                   activeSeen>>
    /\ UNCHANGED <<lifeVars, obsVars, callVars>>
    /\ UNCHANGED <<uiVars, histVars, clipVars>>

\* HandleChatCompletion of the provider up to its call of callKhojAPI.
ProviderTranslate ==
    /\ reqPc = "ptranslate"
    /\ prompt' = BuildPrompt(req.Messages)
    /\ files' = BuildFiles(req.Messages)
    /\ upReq' = NewKhojRequest(req, BuildPrompt(req.Messages),
                               continueConversationID, BuildFiles(req.Messages))
    /\ upCalls' = upCalls + 1
    /\ reqPc' = "call"
    /\ UNCHANGED <<req, rctx, loaded, upResult, httpStatus, response, chunkAt,
                   frames, writeFailed, framesAtCancel, activeSeen>>
    /\ UNCHANGED <<lifeVars, obsVars, callVars>>
    /\ UNCHANGED <<doorVars, uiVars, histVars, clipVars>>

\* The /v1/completions handler after HandleChatCompletion: 500, or the
\* text_completion object.
CompletionsRespond ==
    /\ reqPc = "returned"
    /\ inbound.Path = "/v1/completions"
    /\ IF upResult.kind = "err"
       THEN /\ httpStatus' = FailureStatus(upResult)
            /\ UNCHANGED completion
       ELSE /\ httpStatus' = 200
            /\ completion' = TextCompletion(response)
    /\ reqPc' = "closed"
    /\ UNCHANGED <<req, rctx, loaded, prompt, files, upReq, upCalls, upResult,
                   response, chunkAt, frames, writeFailed, framesAtCancel,
                   activeSeen, inbound, hdrOrigin, bodyRead>>
    /\ UNCHANGED <<lifeVars, obsVars, callVars>>
    /\ UNCHANGED <<uiVars, histVars, clipVars>>

\* The /v1/models handler: 200 for OPTIONS, the model list for every other
\* method.
ProviderModels ==
    /\ reqPc = "idle"
    /\ \E in \in InboundRequests :
         /\ Mux(ProviderRoutes, in.Path) = "/v1/models"
         /\ inbound' = in
    /\ hdrOrigin' = enableCORS(hdrOrigin)
    /\ httpStatus' = 200
    /\ reqPc' = "closed"
    /\ UNCHANGED <<req, rctx, loaded, prompt, files, upReq, upCalls, upResult,
                   response, chunkAt, frames, writeFailed, framesAtCancel,
                   activeSeen, bodyRead, completion>>
    /\ UNCHANGED <<lifeVars, obsVars, callVars>>
    /\ UNCHANGED <<uiVars, histVars, clipVars>>

\* The /health handler of the provider.
ProviderHealth ==
    /\ reqPc = "idle"
    /\ \E in \in InboundRequests :
         /\ Mux(ProviderRoutes, in.Path) = "/health"
         /\ inbound' = in
    /\ httpStatus' = 200
    /\ reqPc' = "closed"
    /\ UNCHANGED <<req, rctx, loaded, prompt, files, upReq, upCalls, upResult,
                   response, chunkAt, frames, writeFailed, framesAtCancel,
                   activeSeen, hdrOrigin, bodyRead, completion>>
    /\ UNCHANGED <<lifeVars, obsVars, callVars>>
    /\ UNCHANGED <<uiVars, histVars, clipVars>>

\* No pattern of the default mux matches.
ProviderNotFound ==
    /\ reqPc = "idle"
    /\ \E in \in InboundRequests :
         /\ Mux(ProviderRoutes, in.Path) = "NotFound"
         /\ inbound' = in
    /\ httpStatus' = 404
    /\ reqPc' = "closed"
    /\ UNCHANGED <<req, rctx, loaded, prompt, files, upReq, upCalls, upResult,
                   response, chunkAt, frames, writeFailed, framesAtCancel,
                   activeSeen, hdrOrigin, bodyRead, completion>>
    /\ UNCHANGED <<lifeVars, obsVars, callVars>>
    /\ UNCHANGED <<uiVars, histVars, clipVars>>

\* The provider listens; the variables of the tray program keep their
\* initial values.
InitProvider ==
    /\ flagConversationID = ""
    /\ flagNewConversation = FALSE
    /\ apiKeySet \in BOOLEAN
    /\ menuBudget = MaxMenuOps
    /\ file = NoFile
    /\ Boot

NextProvider ==
    \/ ProviderChatEnter
    \/ CompletionsEnter
    \/ ProviderModels
    \/ ProviderHealth
    \/ ProviderNotFound
    \/ ProviderTranslate
    \/ UpstreamReturn
    \/ Respond
    \/ CompletionsRespond
    \/ StreamChunk
    \/ StreamFinal
    \/ FrontCancel
    \/ FrontReturn

SpecProvider == InitProvider /\ [][NextProvider]_vars

\* ================================================================ claims
\* ---------------------------------------------------------------- C1
RetryableFailure(o) ==
    \/ o.kind = "transport"
    \/ o.kind = "http" /\ o.status >= 500

\* C1: a chat call issues at most 3 HTTP attempts; when every attempt failed
\* with a transport error or a 5xx, it made exactly 3 attempts and returned
\* the exhausted-attempts error wrapping the third attempt's failure.
C1_AtMostThreeAttempts ==
    /\ Len(sent) <= 3
    /\ (callPc = "done" /\ \A i \in 1..Len(outcomes) : RetryableFailure(outcomes[i]))
         => /\ Len(sent) = 3
            /\ Len(outcomes) = 3
            /\ callResult.kind = "exhausted"
            /\ callResult.err.body = outcomes[3].body
            /\ callResult.err.status = outcomes[3].status
            /\ callResult.err.kind =
                 (IF outcomes[3].kind = "http" THEN "api" ELSE "transport")

C1_Witness ==
    /\ callPc = "done"
    /\ Len(outcomes) = 3
    /\ outcomes[1].kind = "transport"
    /\ outcomes[2].status = 500
    /\ outcomes[3].status = 503
    /\ callResult.kind = "exhausted"

\* ---------------------------------------------------------------- C2
\* C2: the only sleeps of a call are 2s before the second attempt and 4s
\* before the third (2n seconds before 0-based attempt n > 0): none before
\* the first attempt, none after the last attempt or after the call ended;
\* answers 500, 500, 200 give success after exactly 3 attempts.
C2_LinearBackoff ==
    /\ \A i \in 1..Len(sleeps) : sleeps[i] = 2 * i
    /\ Len(sleeps) =
         (IF callPc = "send" THEN attempt
          ELSE IF Len(sent) = 0 THEN 0 ELSE Len(sent) - 1)
    /\ (callPc = "send" /\ attempt = 0) => sleeps = <<>>
    /\ (/\ callPc = "done"
        /\ Len(outcomes) = 3
        /\ outcomes[1].kind = "http" /\ outcomes[1].status = 500
        /\ outcomes[2].kind = "http" /\ outcomes[2].status = 500
        /\ outcomes[3].kind = "http" /\ outcomes[3].status = 200
        /\ outcomes[3].body = "json")
         => /\ callResult.kind = "ok"
            /\ Len(sent) = 3
            /\ sleeps = <<2, 4>>

C2_Witness ==
    /\ callPc = "done"
    /\ Len(outcomes) = 3
    /\ outcomes[1].status = 500
    /\ outcomes[2].status = 500
    /\ outcomes[3].status = 200
    /\ outcomes[3].body = "json"
    /\ sleeps = <<2, 4>>
    /\ callResult.kind = "ok"

\* ---------------------------------------------------------------- C3
ClientError(o) == o.kind = "http" /\ o.status >= 400 /\ o.status < 500

\* C3: a 4xx answer to any attempt ends the call at once with an error that
\* carries that status and body: it is the last attempt, and no sleep
\* follows it.
C3_ClientErrorAborts ==
    \A i \in 1..Len(outcomes) :
        ClientError(outcomes[i])
          => /\ i = Len(outcomes)
             /\ Len(sent) = i
             /\ Len(sleeps) = i - 1
             /\ callPc \in {"done", "idle"}
             /\ callResult.kind = "error"
             /\ callResult.err.kind = "api"
             /\ callResult.err.status = outcomes[i].status
             /\ callResult.err.body = outcomes[i].body

C3_Witness ==
    /\ callPc = "done"
    /\ Len(outcomes) = 2
    /\ outcomes[1].status = 503
    /\ outcomes[2].status = 404
    /\ callResult.kind = "error"

C5_ServedHandleNonEmpty == menuOps = 0 => carried # ""

\* ---------------------------------------------------------------- C6
\* No lifecycle operation is in progress: initialization and the server
\* start have run to their end and the menu goroutine waits for a click.
Quiescent ==
    /\ mainPc = "tray"
    /\ menuPc = "idle"
    /\ srvPc \in {"serving", "ended", "stopped"}

\* C6: in every quiescent state the persisted handle and agent equal the
\* active handle and agent.
C6_PersistedEqualsActive ==
    Quiescent =>
        /\ loadConversationState(file).err = FALSE
        /\ loadConversationState(file).id = conversationID
        /\ loadConversationState(file).agent = currentAgentSlug

\* ---------------------------------------------------------------- C7
PastSessionCreation ==
    srvPc \in {"await", "build", "save", "listen", "serving", "ended", "stopped"}

NoFlags == flagConversationID = "" /\ ~flagNewConversation

\* The first server start, with no menu operation before or during it.
PlainFirstStart == starts = 1 /\ menuOps = 0 /\ PastSessionCreation

\* C7: a server start calls createSession exactly once when the flag was set
\* or the handle was empty, and not at all otherwise; so it is called with -n
\* even when a handle is persisted, never with a persisted handle and no
\* flags, and exactly once on a first run.
C7_CreateIffNeeded ==
    /\ startCreates <= 1
    /\ PastSessionCreation
         => startCreates = (IF chkSeen.nc \/ chkSeen.id = "" THEN 1 ELSE 0)
    /\ (PlainFirstStart /\ flagConversationID = "" /\ flagNewConversation)
         => startCreates = 1
    /\ (PlainFirstStart /\ NoFlags /\ srvPc = "await")
         => loadConversationState(file).id = ""
    /\ (PlainFirstStart /\ NoFlags /\ file = NoFile)
         => startCreates = 1

C7_Witness ==
    /\ flagNewConversation
    /\ flagConversationID = ""
    /\ srvPc = "serving"
    /\ starts = 1
    /\ startCreates = 1
    /\ chkSeen.nc
    /\ gotHandle = "c1"

\* ---------------------------------------------------------------- C8
\* The server start created its session and went on, and no menu operation
\* took part.
StartCreatedSession ==
    /\ startCreates = 1
    /\ ~startFailed
    /\ startSaved
    /\ menuOps = 0
    /\ srvPc \in {"listen", "serving", "ended", "stopped"}

\* C8: after a successful session creation at server start the active handle
\* is the returned one, the flag is cleared, and the persisted state holds
\* the returned handle with the agent that was sent in the request.
C8_PersistsSentAgent ==
    StartCreatedSession =>
        /\ conversationID = gotHandle
        /\ ~newConversation
        /\ file = StateFile(gotHandle, sentAgent)

\* ---------------------------------------------------------------- C9
\* C9: a failed session creation ends that startup: the server goroutine
\* returns with running = false and never serves, and the failing step
\* leaves the handle, the flag, the agent and the persisted state alone.
C9_FailedCreationIsFatal ==
    /\ [](startFailed => (srvPc = "ended" /\ ~running))
    /\ [][(srvPc = "await" /\ srvPc' # "await" /\ startFailed')
            => /\ srvPc' = "ended"
               /\ conversationID' = conversationID
               /\ newConversation' = newConversation
               /\ currentAgentSlug' = currentAgentSlug
               /\ file' = file]_vars
    /\ [][startFailed => (startFailed' /\ srvPc' = "ended" /\ carried' = carried)]_vars

C9_Witness ==
    /\ startFailed
    /\ srvPc = "ended"
    /\ ~running
    /\ newConversation
    /\ carried = NotServed

\* --------------------------------------------------------------- C10
\* C10: with a -conversation-id override, also together with -n, initialize
\* neither reads nor writes the state file and does not mark needs-new; the
\* override is the active handle, the server start creates no session, and
\* the chat requests carry the override (as long as no menu operation
\* installs another handle).
C10_OverrideWins ==
    /\ []((flagConversationID # "" /\ mainPc # "main")
            => /\ mainPc # "fatal"
               /\ fileReads = 0
               /\ ~newConversation
               /\ ~handleEdits
                    => /\ conversationID = flagConversationID
                       /\ startCreates = 0
                       /\ carried \in {NotServed, flagConversationID})
    /\ [][mainPc = "main" => file' = file]_vars

C10_Witness ==
    /\ flagConversationID = "ov"
    /\ flagNewConversation
    /\ file = StateFile("c0", "gpt-4o")
    /\ srvPc = "serving"
    /\ carried = "ov"
    /\ starts = 2

\* --------------------------------------------------------------- C11
\* C11: a launch with no flags on a state file that holds a non-empty handle
\* and an agent resumes with that handle and that agent as the active pair,
\* leaves the file alone, creates no session at server start and serves its
\* chat requests on the persisted handle (until a menu operation steps in).
C11_ResumesPersisted ==
    /\ []((menuOps = 0 /\ mainPc # "main" /\ file.id # "" /\ file.agent # "")
            => /\ mainPc # "fatal"
               /\ fileReads = 1
               /\ conversationID = file.id
               /\ currentAgentSlug = file.agent
               /\ ~newConversation
               /\ startCreates = 0
               /\ carried \in {NotServed, file.id})
    /\ [][menuOps' = 0 => file' = file]_vars

C11_Witness ==
    /\ file = StateFile("u1", "gpt-4o")
    /\ menuOps = 0
    /\ starts = 2
    /\ srvPc = "serving"
    /\ conversationID = "u1"
    /\ currentAgentSlug = "gpt-4o"
    /\ carried = "u1"

\* --------------------------------------------------------------- C12
RECURSIVE JoinContents(_)
JoinContents(fs) ==
    IF fs = <<>> THEN "" ELSE Head(fs).content \o JoinContents(Tail(fs))

CeilDiv(a, b) == (a + b - 1) \div b

\* A streaming request ran to its end with a completion, no cancellation and
\* no failed write.
StreamCompleted ==
    /\ reqPc = "closed"
    /\ req.Stream
    /\ upResult.kind = "ok"
    /\ rctx = "live"
    /\ ~writeFailed

\* C12: a completed stream of a text of length L consists of ceil(L/50)
\* content frames, the final frame and the sentinel, in this order and
\* nothing else, and the contents of the content frames joined give the text.
C12_FramesCarryCompletion ==
    StreamCompleted =>
        LET n == CeilDiv(Len(upResult.Response), 50) IN
          /\ Len(frames) = n + 2
          /\ \A k \in 1..n : frames[k].kind = "content"
          /\ frames[n + 1] = FinalFrame
          /\ frames[n + 2] = DoneFrame
          /\ JoinContents(SubSeq(frames, 1, n)) = upResult.Response

\* --------------------------------------------------------------- C13
StreamFrames(fs) == SelectSeq(fs, LAMBDA f : f.kind # "error")

\* C13: once the request context is cancelled, no content frame, no final
\* frame and no sentinel is written any more.
C13_NoFrameAfterCancel ==
    rctx = "canceled" => Len(StreamFrames(frames)) = framesAtCancel

\* --------------------------------------------------------------- C14
\* C14: when the fetch of a streaming request failed, the response is the
\* one error frame of type api_error and nothing else.
C14_SingleErrorFrame ==
    (req.Stream /\ upResult.kind = "err")
      => /\ StreamFrames(frames) = <<>>
         /\ reqPc = "returned" => frames = <<>>
         /\ reqPc = "closed"
              => /\ Len(frames) = 1
                 /\ frames[1].kind = "error"
                 /\ frames[1].finish = "api_error"

C14_Witness ==
    /\ req.Stream
    /\ upResult.kind = "err"
    /\ reqPc = "closed"
    /\ rctx = "live"
    /\ Len(frames) = 1

\* --------------------------------------------------------------- C15
\* The handler went on to the translator with the request.
Translated ==
    /\ inbound.Path = "/v1/chat/completions"
    /\ ChatHandlerEntry(inbound).accept

\* C15: a request that reaches the translator, streaming or not, enters
\* callKhojAPI exactly once, with stream = false, and no frame is written
\* before that call has returned.
C15_FetchThenChunk ==
    /\ reqPc \in {"idle", "translate", "load", "build"} => upCalls = 0
    /\ (reqPc \in {"call", "returned", "stream", "closed"} /\ Translated)
         => upCalls = 1 /\ upReq.Stream = FALSE
    /\ reqPc \in {"translate", "load", "build", "call", "returned"}
         => frames = <<>>

C15_Witness ==
    /\ req.Stream
    /\ reqPc = "stream"
    /\ Len(frames) = 2
    /\ upCalls = 1
    /\ upReq.Stream = FALSE

\* --------------------------------------------------------------- C16
\* The rule of the claims for a message that travels as a file.
Qualifies(content) ==
    /\ Len(content) > 10000
    /\ Contains(content, "<html") \/ Contains(content, "<!DOCTYPE html>")

RECURSIVE PlainPrompt(_)
PlainPrompt(msgs) ==
    IF msgs = <<>> THEN ""
    ELSE Head(msgs).Role \o ": " \o Head(msgs).Content \o "\n" \o
         PlainPrompt(Tail(msgs))

\* C16: when no message qualifies as a file, the prompt is the lines
\* "<role>: <content>\n" of the messages in their order, no file is attached,
\* and the prompt (the empty one of no messages too) is what goes upstream.
C16_PromptIsConcatenation ==
    (reqPc \in {"load", "build", "call"}
       /\ \A k \in 1..Len(req.Messages) : ~Qualifies(req.Messages[k].Content))
      => /\ prompt = PlainPrompt(req.Messages)
         /\ files = <<>>
         /\ reqPc = "call"
              => /\ upCalls = 1
                 /\ upReq.Q = PlainPrompt(req.Messages)
                 /\ upReq.Files = <<>>

C16_Witness ==
    /\ reqPc = "call"
    /\ Len(req.Messages) = 2
    /\ req.Messages[1].Content = LongPlain
    /\ req.Messages[2].Content = HtmlAtLimit
    /\ upReq.Q = "system: " \o LongPlain \o "\nuser: " \o HtmlAtLimit \o "\n"

\* --------------------------------------------------------------- C17
QualifyingMessages(msgs) == SelectSeq(msgs, LAMBDA m : Qualifies(m.Content))

\* C17: the files are the qualifying messages (longer than 10000 and with an
\* HTML marker), one entry each in message order, with the content and its
\* length; a qualifying content is not in the prompt, which has one
\* reference line per file; no other message is attached.
C17_FilesAreQualifyingMessages ==
    /\ [](reqPc = "load"
           => LET q == QualifyingMessages(req.Messages) IN
                /\ Len(files) = Len(q)
                /\ \A k \in 1..Len(q) :
                     /\ files[k].Content = q[k].Content
                     /\ files[k].Size = Len(q[k].Content)
                     /\ ~Contains(prompt, q[k].Content)
                     /\ Contains(prompt,
                                 q[k].Role \o ": [File: " \o files[k].Name \o " (" \o
                                 ToString(files[k].Size) \o " bytes)"))
    /\ [](reqPc = "call" => (upReq.Files = files /\ upReq.Q = prompt))
    /\ [][(reqPc = "load" \/ reqPc = "build")
            => /\ files' = files
               /\ prompt' = prompt]_vars

C17_Witness ==
    /\ reqPc = "call"
    /\ Len(req.Messages) = 2
    /\ req.Messages[1].Content = IndexPage
    /\ req.Messages[2].Content = HtmlPage
    /\ Len(upReq.Files) = 2
    /\ upReq.Files[1].Name = "index.html"
    /\ upReq.Files[2].Size = 10001

\* --------------------------------------------------------------- C18
\* C18: prompt_tokens = len(P)/4, completion_tokens = len(C)/4 and
\* total_tokens = (len(P)+len(C))/4, so the total is the sum of the two or
\* one more.
C18_UsageFormula ==
    (upResult.kind = "ok" /\ reqPc \in {"returned", "stream", "closed"})
      => /\ response.PromptTokens = Len(prompt) \div 4
         /\ response.CompletionTokens = Len(upResult.Response) \div 4
         /\ response.TotalTokens = (Len(prompt) + Len(upResult.Response)) \div 4
         /\ response.TotalTokens >= response.PromptTokens + response.CompletionTokens
         /\ response.TotalTokens <= response.PromptTokens + response.CompletionTokens + 1

C18_Witness ==
    /\ upResult.kind = "ok"
    /\ reqPc = "closed"
    /\ response.PromptTokens = 4
    /\ response.CompletionTokens = 12
    /\ response.TotalTokens = 17

\* --------------------------------------------------------------- C19
\* The plain request {user: "hi"} was answered "hello" by the backend.
HiHello ==
    /\ reqPc = "closed"
    /\ ~req.Stream
    /\ req.Messages = <<[Role |-> "user", Content |-> "hi"]>>
    /\ upResult = [kind |-> "ok", Response |-> "hello", err |-> NoErr]

\* C19: the request {user: "hi"} answered "hello" gives status 200, the
\* content "hello" and total_tokens (9+5)/4 = 3, 9 being the length of the
\* prompt "user: hi\n".
C19_HiHello ==
    HiHello => /\ httpStatus = 200
               /\ response.Content = "hello"
               /\ upReq.Q = "user: hi\n"
               /\ response.TotalTokens = 3

\* C19 as stated: total_tokens (2+5)/4 = 1.
C19_HiHelloAsStated ==
    HiHello => /\ httpStatus = 200
               /\ response.Content = "hello"
               /\ response.TotalTokens = (2 + 5) \div 4

C19_Witness ==
    /\ HiHello
    /\ httpStatus = 200
    /\ response.TotalTokens = 3

\* --------------------------------------------------------------- C20
\* C20: the handle an upstream request carries was the active handle at
\* some instant of the request.
C20_CarriedWasActive ==
    (reqPc \in {"call", "returned", "stream", "closed"} /\ upCalls > 0)
      => upReq.ConversationID \in activeSeen

\* --------------------------------------------------------------- C21
\* C21: updateConversationID with the empty handle returns its validation
\* error at once and changes nothing: the active handle, the active agent
\* and the state file stay as they are, no save is started, and the server
\* goroutine is where it was (a running server keeps serving).
C21_EmptyHandleRejected ==
    [][updateConversationID("")
         => /\ menuErr' = "empty"
            /\ menuPc' = "idle"
            /\ conversationID' = conversationID
            /\ currentAgentSlug' = currentAgentSlug
            /\ file' = file
            /\ running' = running
            /\ srvPc' = srvPc]_vars

C21_Witness ==
    /\ menuOp = "conv"
    /\ menuErr = "empty"
    /\ menuPc = "idle"
    /\ srvPc = "serving"
    /\ running
    /\ conversationID = "c1"
    /\ file = StateFile("c1", defaultAgentSlug)

\* --------------------------------------------------------------- C22
\* C22: updateAgentSlug raises no validation error; it installs the given
\* slug, or the default agent for the empty slug, and never touches the
\* active handle; when its save succeeds the persisted agent is the active
\* agent.
C22_AgentNormalized ==
    [][/\ \A s \in UserAgents \cup {""} :
             updateAgentSlug(s)
               => /\ currentAgentSlug' = (IF s = "" THEN defaultAgentSlug ELSE s)
                  /\ menuErr' = "none"
                  /\ conversationID' = conversationID
       /\ (menuOp = "agent" /\ menuPc \in {"build", "save"} /\ menuPc' # menuPc)
             => /\ conversationID' = conversationID
                /\ currentAgentSlug' = currentAgentSlug
       /\ (menuOp = "agent" /\ menuPc = "save" /\ menuPc' = "idle"
              /\ menuErr' = "none")
             => /\ file'.kind = "ok"
                /\ file'.agent = currentAgentSlug']_vars

\* The empty slug was given on top of an override launch, which leaves the
\* agent empty: the default agent is active and persisted.
C22_Witness ==
    /\ flagConversationID = "ov"
    /\ menuOp = "agent"
    /\ menuPc = "idle"
    /\ menuErr = "none"
    /\ conversationID = "ov"
    /\ currentAgentSlug = defaultAgentSlug
    /\ file = StateFile("ov", defaultAgentSlug)

\* --------------------------------------------------------------- C28
\* C28: createNewConversation sends one request per call and never tries
\* again: a start sends at most one session request, and the answer ends
\* the call.  A transport error or a status other than 200 makes it return
\* an error (for a status, with that status and the body) and no handle is
\* adopted; a handle is adopted only from a 200 answer.
C28_SessionSingleAttempt ==
    /\ [](startCreates <= 1)
    /\ [][/\ (srvPc = "await" /\ srvPc' # "await")
               => srvPc' \in {"ended", "build"}
          /\ (menuPc = "await" /\ menuPc' # "await")
               => menuPc' \in {"idle", "build"}
          /\ (srvPc = "await" /\ srvPc' # "await")
            => \A resp \in SessionResponses :
                 /\ (StartCreateRecvOn(resp) /\ (resp.transport \/ resp.status # 200))
                      => /\ SessionResult(resp).err
                         /\ resp.transport
                              \/ /\ SessionResult(resp).status = resp.status
                                 /\ SessionResult(resp).body = resp.body
                         /\ srvPc' = "ended"
                         /\ startFailed'
                         /\ conversationID' = conversationID
                 /\ (StartCreateRecvOn(resp) /\ srvPc' = "build")
                      => /\ ~resp.transport
                         /\ resp.status = 200
                         /\ conversationID' = resp.body.id
          /\ (menuPc = "await" /\ menuPc' # "await")
            => \A resp \in SessionResponses :
                 /\ (MenuNewRecvOn(resp) /\ (resp.transport \/ resp.status # 200))
                      => /\ SessionResult(resp).err
                         /\ menuErr' = "create"
                         /\ menuPc' = "idle"
                         /\ conversationID' = conversationID
                 /\ (MenuNewRecvOn(resp) /\ menuPc' = "build")
                      => /\ ~resp.transport
                         /\ resp.status = 200
                         /\ conversationID' = resp.body.id]_vars

\* A start whose one session request failed has ended without a handle.
C28_Witness ==
    /\ srvPc = "ended"
    /\ startFailed
    /\ startCreates = 1
    /\ conversationID = ""
    /\ ~running

CharLen(s) == Cardinality({i \in 1..Len(s) : SubSeq(s, i, i) # ContByte})

\* The last n characters of s.
LastChars(s, n) ==
    LET starts_ == {i \in 1..Len(s) : SubSeq(s, i, i) # ContByte}
        from == CHOOSE i \in starts_ :
                    Cardinality({j \in starts_ : j >= i}) = n
    IN SubSeq(s, from, Len(s))

DisplayAsStated(h) ==
    IF h = "" THEN "None"
    ELSE IF CharLen(h) <= 4 THEN h
    ELSE "..." \o LastChars(h, 4)

\* C30: the menu shows "None" for the empty handle, a handle of at most 4
\* characters as it is, and "..." with the last 4 characters of a longer
\* one, whenever the title was set from the active handle.
C30_DisplayHandle ==
    (mainPc = "tray" /\ menuPc = "idle" /\ menuErr = "none")
      => convTitle = "Conv: " \o DisplayAsStated(conversationID)

\* --------------------------------------------------------------- C23
\* A POST to /v1/chat/completions whose body is no JSON, no JSON object, or
\* an object that does not decode into a chat request.
MalformedChatPost(in) ==
    /\ in.Path = "/v1/chat/completions"
    /\ in.Method = "POST"
    /\ in.Body \in {"garbage", "array", "mistyped"}

\* C23: a POST to /v1/chat/completions with a body that is not the JSON of a
\* chat request is answered 400 in the one step that takes it: no upstream
\* request is built or sent, no frame is written, and the active handle, the
\* active agent and the state file are left as they are.
C23_MalformedJSON ==
    /\ []((reqPc = "closed" /\ MalformedChatPost(inbound))
            => /\ httpStatus = 400
               /\ upCalls = 0
               /\ upReq = NoUpstream
               /\ frames = <<>>)
    /\ [][(inbound' # inbound /\ MalformedChatPost(inbound'))
            => /\ reqPc' = "closed"
               /\ conversationID' = conversationID
               /\ currentAgentSlug' = currentAgentSlug
               /\ file' = file]_vars

C23_Witness ==
    /\ reqPc = "closed"
    /\ inbound = [Path |-> "/v1/chat/completions", Method |-> "POST",
                  Body |-> "mistyped"]
    /\ httpStatus = 400
    /\ bodyRead
    /\ upCalls = 0

\* --------------------------------------------------------------- C24
\* C24: a non-streaming chat request whose upstream call failed is answered
\* 500, whatever the failure was (a 4xx of the backend, a 5xx or a timeout or
\* an undecodable body after the last attempt, the deadline); the status of
\* the backend is not the status of the answer, and no completion is
\* returned.
C24_Generic500 ==
    (reqPc = "closed" /\ Translated /\ ~req.Stream /\ upResult.kind = "err")
      => /\ httpStatus = 500
         /\ response = NoResponse

C24_Witness ==
    /\ reqPc = "closed"
    /\ Translated
    /\ ~req.Stream
    /\ upResult.kind = "err"
    /\ upResult.err.status = 404
    /\ httpStatus = 500

\* --------------------------------------------------------------- C25
\* C25: the running server answers each of the four documented endpoints
\* from a handler, never with "not found".
C25_ServesDocumentedEndpoints ==
    (reqPc = "closed" /\ inbound.Path \in DocumentedEndpoints)
      => httpStatus # 404

\* --------------------------------------------------------------- C27
\* C27: from the moment the /v1/chat/completions handler has taken a request,
\* the response carries Access-Control-Allow-Origin: * (the JSON answer, the
\* 400, 405 and 500 answers and the stream alike); an OPTIONS request is
\* answered 200 in the step that takes it, its body is not read and nothing
\* is sent upstream.
C27_CORS ==
    /\ [](inbound.Path = "/v1/chat/completions" => hdrOrigin = "*")
    /\ []((reqPc = "closed" /\ inbound.Path = "/v1/chat/completions"
             /\ inbound.Method = "OPTIONS")
            => /\ httpStatus = 200
               /\ ~bodyRead
               /\ upCalls = 0)
    /\ [][(inbound' # inbound /\ inbound'.Path = "/v1/chat/completions"
             /\ inbound'.Method = "OPTIONS")
            => reqPc' = "closed"]_vars

\* A failed plain request was answered 500 with the header.
C27_Witness ==
    /\ reqPc = "closed"
    /\ inbound.Path = "/v1/chat/completions"
    /\ ~req.Stream
    /\ httpStatus = 500
    /\ hdrOrigin = "*"

\* --------------------------------------------------------------- C26
\* A POST to /v1/completions whose body decodes.
ValidCompletionsPost ==
    /\ inbound.Path = "/v1/completions"
    /\ inbound.Method = "POST"
    /\ inbound.Body = "chat"

\* C26: every valid POST to /v1/completions, whatever its prompt, is turned
\* into one user message and goes through HandleChatCompletion: it causes
\* the one upstream request the translator builds for that message, and a
\* successful one is answered with a text_completion whose text and usage
\* are those of the chat response for that message.
C26_CompletionsRewrapped ==
    (reqPc = "closed" /\ ValidCompletionsPost)
      => /\ Len(req.Messages) = 1
         /\ req.Messages[1].Role = "user"
         /\ upCalls = 1
         /\ upReq = NewKhojRequest(req, BuildPrompt(req.Messages),
                                   continueConversationID,
                                   BuildFiles(req.Messages))
         /\ upResult.kind = "ok"
              => /\ httpStatus = 200
                 /\ completion = TextCompletion(
                        ChatCompletionResponse(BuildPrompt(req.Messages),
                                               upResult.Response))

\* --------------------------------------------------------------- C31
\* C31: a failing menu new-conversation (no API key, or the session request
\* fails) only hands its error to the menu loop: the step changes neither
\* the active handle, the active agent, the state file, the needs-new flag
\* nor the menu title, and the main goroutine and the server goroutine stay
\* where they are.
C31_MenuNewFailureIsLocal ==
    [][((~apiKeySet /\ MenuNewConversation)
        \/ (menuPc = "await"
              /\ \E resp \in SessionResponses :
                    SessionResult(resp).err /\ MenuNewRecvOn(resp)))
       => /\ menuErr' \in {"nokey", "create"}
          /\ menuPc' = "idle"
          /\ UNCHANGED <<conversationID, currentAgentSlug, newConversation,
                         file, convTitle>>
          /\ UNCHANGED <<mainPc, srvPc, running, srvSet>>]_vars

\* A session request of the menu failed while the server was serving with a
\* handle.
C31_Witness ==
    /\ menuOp = "new"
    /\ menuErr = "create"
    /\ menuPc = "idle"
    /\ srvPc = "serving"
    /\ running
    /\ conversationID # ""
    /\ file.kind = "ok"

\* --------------------------------------------------------------- C32
\* An HTTP 200 answer whose body does not decode into KhojResponse.
UndecodableOK(o) == o.kind = "http" /\ o.status = 200 /\ o.body # "json"
\* An HTTP 200 answer that decodes.
DecodedOK(o) == o.kind = "http" /\ o.status = 200 /\ o.body = "json"

\* C32: a 200 answer that does not decode is handled like a 5xx: the loop
\* body gives both the same verdict, the failure uses up one attempt, a
\* following attempt waits the usual 2n seconds, and when it was the third
\* attempt the call ends in the exhausted-attempts error wrapping the decode
\* failure; a 200 answer that decodes is the last outcome of its call and
\* the call succeeds.
C32_UndecodableIsRetried ==
    /\ \A s \in {500, 503} :
         AttemptVerdict([kind |-> "http", status |-> 200, body |-> "garbage"])
           = AttemptVerdict([kind |-> "http", status |-> s, body |-> "garbage"])
    /\ \A i \in 1..Len(outcomes) :
         /\ UndecodableOK(outcomes[i])
              => /\ attempt >= i
                 /\ i < Len(sent) => (Len(sleeps) >= i /\ sleeps[i] = 2 * i)
                 /\ (i = Len(outcomes) /\ callPc \in {"done", "idle"})
                      => /\ i = maxRetries
                         /\ callResult.kind = "exhausted"
                         /\ callResult.err.kind = "decode"
                 /\ (i = Len(outcomes) /\ i < maxRetries)
                      => callPc \in {"loop", "sleep", "send", "inflight"}
         /\ DecodedOK(outcomes[i])
              => /\ i = Len(outcomes)
                 /\ callPc \in {"done", "idle"}
                 /\ callResult.kind = "ok"

\* Three 200 answers in a row did not decode.
C32_Witness ==
    /\ callPc = "done"
    /\ Len(outcomes) = 3
    /\ \A i \in 1..3 : UndecodableOK(outcomes[i])
    /\ sleeps = <<2, 4>>
    /\ callResult.kind = "exhausted"

\* --------------------------------------------------------------- C33
\* C33: without override and without -n, initializeConversationID follows
\* the state file: a file that cannot be read or parsed makes it fail (main
\* ends the process) with the globals untouched; an absent file or an empty
\* persisted handle sets the needs-new flag and makes the default agent the
\* active one; a persisted handle is adopted together with the persisted
\* agent, or with the default agent when the persisted agent is empty.
C33_InitializeLoadsPersisted ==
    [][(Initialize /\ flagConversationID = "" /\ ~flagNewConversation)
       => IF file.kind = "corrupt"
          THEN /\ mainPc' = "fatal"
               /\ UNCHANGED <<conversationID, currentAgentSlug,
                              newConversation, file>>
          ELSE IF file.id = ""
          THEN /\ mainPc' = "initialized"
               /\ newConversation'
               /\ conversationID' = ""
               /\ currentAgentSlug' = defaultAgentSlug
               /\ UNCHANGED file
          ELSE /\ mainPc' = "initialized"
               /\ ~newConversation'
               /\ conversationID' = file.id
               /\ currentAgentSlug' =
                    (IF file.agent = "" THEN defaultAgentSlug ELSE file.agent)
               /\ UNCHANGED file]_vars

\* Initialization failed on a state file that does not parse.
C33_Witness ==
    /\ mainPc = "fatal"
    /\ file.kind = "corrupt"
    /\ fileReads = 1
    /\ flagConversationID = ""
    /\ ~flagNewConversation
    /\ conversationID = ""
    /\ ~newConversation

\* --------------------------------------------------------------- C34
\* The pair of globals the two update functions act on.
ActivePair == ConversationState(conversationID, currentAgentSlug)

\* An update function has returned nil.
UpdateSucceeded ==
    /\ menuOp \in {"conv", "agent"}
    /\ menuPc = "idle"
    /\ menuErr = "none"
    /\ menuOps > 0

\* C34: from the active state, updateConversationID with a non-empty handle
\* and updateAgentSlug install their argument and go on to write the state
\* file on every application, also when the value was already the active
\* one; the write stores the active pair; so after an application that
\* returned nil the active pair and the persisted pair are what one
\* application of the call makes them, however often it was applied before,
\* and an application on a pair that already holds the value leaves the pair
\* as it was.  Neither function touches the server, the needs-new flag or
\* the other half of the pair, and the handle stays non-empty.
C34_IdempotentRepersist ==
    /\ [][\A newID \in UserHandles :
            updateConversationID(newID)
              => /\ conversationID' = newID
                 /\ menuPc' = "build"
                 /\ UNCHANGED <<currentAgentSlug, newConversation, srvPc,
                                running, file>>]_vars
    /\ [][\A newSlug \in UserAgents \cup {""} :
            updateAgentSlug(newSlug)
              => /\ currentAgentSlug' = NormalizeSlug(newSlug)
                 /\ menuPc' = "build"
                 /\ UNCHANGED <<conversationID, newConversation, srvPc,
                                running, file>>]_vars
    /\ [][MenuSave
            => /\ UNCHANGED <<conversationID, currentAgentSlug>>
               /\ \/ menuErr' = "none" /\ file' = StateFile(conversationID, currentAgentSlug)
                  \/ menuErr' = "save" /\ file' = file]_vars
    /\ [](UpdateSucceeded
            => /\ file = StateFile(conversationID, currentAgentSlug)
               /\ conversationID # ""
               /\ ~newConversation)
    /\ [][(MenuSave /\ menuErr' = "none")
            => /\ (menuOp = "conv" /\ menuBefore.id = conversationID)
                    => ActivePair' = menuBefore
               /\ (menuOp = "agent" /\ menuBefore.agent = currentAgentSlug)
                    => ActivePair' = menuBefore]_vars

\* updateConversationID is in its second application with the handle the
\* first one installed and persisted: the handle is assigned again, and the
\* state to write is built.
C34_Witness ==
    /\ menuOps = 2
    /\ menuOp = "conv"
    /\ menuPc = "save"
    /\ menuBefore.id = "u1"
    /\ conversationID = "u1"
    /\ menuState = ConversationState("u1", currentAgentSlug)
    /\ file = StateFile("u1", currentAgentSlug)
    /\ srvPc = "serving"

\* --------------------------------------------------------------- C35
\* The attempt was ended by the caller's context.
EndedByContext(o) == o \in {CtxError, DeadlineError}

\* C35: callKhojAPI does not look at the context between attempts.  An
\* attempt ended by the context counts like any transport failure: the call
\* goes on unless it was the third attempt, and then ends in the
\* exhausted-attempts error.  Once the context is done, the backoff sleeps
\* still take place, every further attempt is sent and ends in the context's
\* error, and the call returns only with all 3 attempts made and both
\* sleeps slept.
C35_NoContextCheckBetweenAttempts ==
    /\ [](\A i \in 1..Len(outcomes) :
            EndedByContext(outcomes[i])
              => /\ attempt >= i
                 /\ (i = Len(outcomes) /\ callPc \in {"done", "idle"})
                      => (i = maxRetries /\ callResult.kind = "exhausted")
                 /\ \A j \in i..Len(outcomes) : EndedByContext(outcomes[j]))
    /\ []((ctx # "live" /\ callPc \in {"done", "idle"})
            => /\ callResult.kind = "exhausted"
               /\ Len(sent) = maxRetries
               /\ sleeps = <<2, 4>>)
    /\ [][(ctx # "live" /\ callPc = "sleep")
            => (callPc' = "send" /\ sleeps' = Append(sleeps, Backoff(attempt)))]_vars
    /\ [][(ctx # "live" /\ callPc = "send")
            => (callPc' = "inflight" /\ sent' = Append(sent, khojReq))]_vars
    /\ [][(ctx # "live" /\ callPc = "loop" /\ attempt < maxRetries)
            => callPc' \in {"sleep", "send"}]_vars

\* The caller went away during the first attempt; the call made all three.
C35_Witness ==
    /\ ctx = "canceled"
    /\ callPc = "done"
    /\ Len(outcomes) = 3
    /\ \A i \in 1..3 : outcomes[i] = CtxError
    /\ Len(sent) = 3
    /\ sleeps = <<2, 4>>
    /\ callResult.kind = "exhausted"

\* --------------------------------------------------------------- C36
\* C36: of the HTTP statuses other than 200 only those from 500 on are
\* retried.  Every other one (1xx, 3xx, 4xx, and 2xx such as 201 or 204)
\* is the last outcome of its call: no sleep and no attempt follows, and the
\* call returns an error carrying that status and body.  A 5xx is followed
\* by another attempt unless it was the third.  A call succeeds only on
\* status 200.
C36_OnlyServerErrorsRetried ==
    /\ \A i \in 1..Len(outcomes) :
         outcomes[i].kind = "http" =>
           /\ (outcomes[i].status # 200 /\ outcomes[i].status < 500)
                => /\ i = Len(outcomes)
                   /\ Len(sent) = i
                   /\ Len(sleeps) = i - 1
                   /\ callPc \in {"done", "idle"}
                   /\ callResult.kind = "error"
                   /\ callResult.err.kind = "api"
                   /\ callResult.err.status = outcomes[i].status
                   /\ callResult.err.body = outcomes[i].body
           /\ outcomes[i].status >= 500
                => /\ attempt >= i
                   /\ (i = Len(outcomes) /\ callPc \in {"done", "idle"})
                        => (i = maxRetries /\ callResult.kind = "exhausted")
    /\ callResult.kind = "ok"
         => /\ Len(outcomes) > 0
            /\ outcomes[Len(outcomes)].kind = "http"
            /\ outcomes[Len(outcomes)].status = 200

\* A 500 was retried and the retry was answered 204.
C36_Witness ==
    /\ callPc = "done"
    /\ Len(outcomes) = 2
    /\ outcomes[1].status = 500
    /\ outcomes[2].status = 204
    /\ outcomes[2].body = "json"
    /\ sleeps = <<2>>
    /\ callResult.kind = "error"
    /\ callResult.err.status = 204

\* --------------------------------------------------------------- C37
\* C37: the upstream request of a chat call is built once, before the first
\* attempt, and every attempt of the call sends it as it was built: prompt,
\* files and conversation handle of each attempt are those of the built
\* request, whatever the active handle has become meanwhile.
C37_AttemptsSendSameRequest ==
    /\ [](\A i \in 1..Len(sent) :
            /\ sent[i] = upReq
            /\ sent[i].Q = prompt
            /\ sent[i].Files = files
            /\ sent[i] = sent[1])
    /\ [](Len(sent) > 0 => (upCalls = 1 /\ reqPc = "call"))
    /\ [][reqPc = "call" => upReq' = upReq]_vars

\* The handle was edited after the request was built; the third attempt
\* still carried the handle of the first.
C37_Witness ==
    /\ Len(sent) = 3
    /\ handleEdits
    /\ conversationID = "u1"
    /\ sent[1].ConversationID \in BackendHandles
    /\ sent[3] = sent[1]
    /\ Len(sent[3].Files) = 1
    /\ menuPc = "idle"

\* --------------------------------------------------------------- C38
\* updateConversationID or the menu's new-conversation has returned nil and
\* the handle it installed is the active one.
MenuInstalledHandle ==
    /\ menuOp \in {"new", "conv"}
    /\ menuPc = "idle"
    /\ menuErr = "none"
    /\ menuOps > 0
    /\ handleEdits
    /\ conversationID # ""
    /\ conversationID = menuState.id

\* C38: once updateConversationID or the menu's new-conversation has
\* installed a handle, the needs-new flag is off, and a server start that
\* reaches its check afterwards goes on to listen without creating a
\* session, also in a process launched with -n.
C38_InstalledHandleKept ==
    /\ [](MenuInstalledHandle => ~newConversation)
    /\ [][(StartCheck /\ MenuInstalledHandle) => srvPc' = "listen"]_vars

\* --------------------------------------------------------------- C39
\* C39: when updateConversationID or updateAgentSlug returns the save error,
\* the active handle and agent are what they were when the function was
\* entered, and they still equal the persisted pair.
C39_FailedSaveKeepsMemory ==
    [][(MenuSave /\ menuOp \in {"conv", "agent"} /\ menuErr' = "save")
         => /\ ActivePair' = menuBefore
            /\ file' = StateFile(conversationID', currentAgentSlug')]_vars

\* --------------------------------------------------------------- C40
\* The clipboard requests that were accepted and have not finished: past
\* the test of the guard, and before the end of the function, of the
\* upstream call and of the insertion.
ClipInProgress ==
    {i \in 1..Len(clip) : clip[i].pc \in {"set", "prepare", "calling", "inserting"}}

\* C40: at most one clipboard request is in progress at a time, and a
\* trigger whose test of the guard comes while a request is in progress is
\* rejected.
C40_OneClipboardRequest ==
    /\ [](Cardinality(ClipInProgress) <= 1)
    /\ [][\A i \in 1..Len(clip) :
            (GuardTest(i) /\ ClipInProgress # {}) => clip'[i].pc = "rejected"]_vars

====
